---- MODULE Spec2Model ----
(***************************************************************************)
(* THREE.PixelBoxScene (src/src/scene.js): the object pool (recycle /      *)
(* upcycle), the populator (populateObject / populateWith), the linker     *)
(* (linkObjects / dereferenceObject), render and dispose, as a state       *)
(* machine over a heap of scene-graph objects and a heap of LayerDefs.     *)
(*                                                                         *)
(* JS strings that the code splits or slices (names, anchors, '#' paths)   *)
(* are sequences of one-character strings; type tags, asset names and      *)
(* template names, which the code only compares, are TLA+ strings.  An     *)
(* optional JS value (undefined or v) is the set {} or {v}.                *)
(*                                                                         *)
(* The operators thread a record w, the world, through the statements of   *)
(* a method: each statement is an operator from world to world, and a      *)
(* method is the composition of its statements.  w.val is the value the    *)
(* last constructor or upcycle returned, w.thrown whether an exception     *)
(* ended the method.                                                       *)
(***************************************************************************)
EXTENDS Integers, Sequences, FiniteSets, TLC

\* ---------------------------------------------------------------- bounds
\* most objects ever constructed in one run (the scene, its ambient light and
\* its default camera are the first three)
MaxObj == 9
\* most calls of the scene's methods in one run
MaxCalls == 5
\* most populateObject calls nested in one another that the stack holds
MaxDepth == 5

\* ---------------------------------------------------------------- values
\* null / undefined object reference
NoObj == 0
\* the PixelBoxScene itself (a THREE.Scene, hence an Object3D)
SceneObj == 1
\* obj.def of an object that populateObject never configured
NoDef == 0

Vec(x, y, z) == <<x, y, z>>
Zero3 == Vec(0, 0, 0)
One3 == Vec(1, 1, 1)

EmptyMap == [k \in {} |-> 0]
MapPut(m, k, v) == [x \in (DOMAIN m) \cup {k} |-> IF x = k THEN v ELSE m[x]]
MapDel(m, k) == [x \in (DOMAIN m) \ {k} |-> m[x]]
MapGet(m, k) == IF k \in DOMAIN m THEN m[k] ELSE NoObj

SeqSet(s) == {s[i] : i \in 1..Len(s)}
SeqWithout(s, x) == SelectSeq(s, LAMBDA e : e # x)
\* s without its entry at index at
SeqCut(s, at) == SubSeq(s, 1, at - 1) \o SubSeq(s, at + 1, Len(s))

\* a freshly constructed THREE.Object3D (or subclass c): no parent, no
\* children, identity transform, visible, casting no shadow
BlankObject(c) ==
  [cls |-> c, parent |-> NoObj, children |-> <<>>, name |-> <<>>,
   def |-> NoDef, src |-> 0,
   isInstance |-> FALSE, isTemplate |-> FALSE, isContainer |-> FALSE,
   isPlaceholder |-> FALSE, isHelper |-> FALSE, isAnchor |-> FALSE,
   isDefault |-> FALSE, omit |-> FALSE, anchored |-> {},
   position |-> Zero3, rotation |-> Zero3, scale |-> One3,
   visible |-> TRUE, castShadow |-> FALSE, receiveShadow |-> FALSE,
   target |-> NoObj, helper |-> NoObj, asset |-> "",
   hasAnchors |-> FALSE, anchors |-> EmptyMap, refs |-> EmptyMap,
   props |-> EmptyMap, zoom |-> 1, geometryType |-> ""]

LightClasses == {"DirectionalLight", "SpotLight", "PointLight", "HemisphereLight",
                 "AmbientLight"}
\* THREE.PointLightHelper extends THREE.Mesh
MeshClasses == {"Mesh", "PointLightHelper"}

\* ---------------------------------------------------------------- state
VARIABLES
  objects,            \* the heap: Seq of object records, indexed by identity
  defs,               \* LayerDef heap: caller's LayerDefs (ids > 0), retained clones (ids < 0)
  assets,             \* the asset cache: asset name -> asset
  objectPool,         \* this.objectPool: type key -> stack of objects
  camera,             \* this._camera
  updateLights,       \* this.updateLights
  updateMaterials,    \* this.updateMaterials
  placeHolderLights,  \* this.placeHolderLights: {} (null / unset) or {list}
  templates,          \* this.templates: {} (undefined) or {map name -> LayerDef id}
  ret,                \* what the last call returned
  thrown,             \* whether the last call ended in an exception
  pending,            \* history: recycled entries <<key, obj>> not yet retrieved, oldest first
  lastOp,             \* history: the last call and its arguments
  trip,               \* history: progress of a populate / recycle / populate round trip
  disposed,           \* history: the objects dispose() has cleared out of the pool
  calls               \* history: the number of calls made so far
\* w.depth is the number of populateObject calls on the stack
\* w.order is the history of the steps of populateObject's loop in one call,
\* as <<step, LayerDef, object, ready>>: "makeObject" when the callback is
\* called, "acquired" when the callback and the pool have been asked,
\* "listed" when the object enters objectsCreated, "initObject" when the
\* callback is called, ready telling whether the object then has its def,
\* is attached and is listed
\* w.inits and w.trace are the history of one call: the initObject callbacks
\* it made, as <<LayerDef, object>>, and the entries it stored in and took
\* from the pool, as <<"recycle" or "upcycle", key, object>>, in order

vars == <<objects, defs, assets, objectPool, camera, updateLights, updateMaterials,
          placeHolderLights, templates, ret, thrown, pending, lastOp, trip, disposed,
          calls>>

\* the world a call starts in
World ==
  [objects |-> objects, defs |-> defs, assets |-> assets, objectPool |-> objectPool,
   camera |-> camera, updateLights |-> updateLights, updateMaterials |-> updateMaterials,
   placeHolderLights |-> placeHolderLights, templates |-> templates,
   thrown |-> FALSE, pending |-> pending, fresh |-> {}, inUse |-> DOMAIN defs,
   inits |-> <<>>, trace |-> <<>>, order |-> <<>>, depth |-> 0, disposed |-> disposed,
   val |-> NoObj]

\* the objects stored in a pool
PooledIn(pool) == UNION {SeqSet(pool[k]) : k \in DOMAIN pool}

\* ---------------------------------------------------------------- THREE.Object3D
\* parent.remove( child )
Remove(os, p, c) ==
  IF c \in SeqSet(os[p].children)
  THEN [os EXCEPT ![p].children = SeqWithout(@, c), ![c].parent = NoObj]
  ELSE os

\* child leaves the parent it has, if any
Unparent(os, c) == IF os[c].parent # NoObj THEN Remove(os, os[c].parent, c) ELSE os

\* parent.add( child ): a child that has a parent is removed from it first
Add(os, p, c) ==
  IF p = c THEN os
  ELSE [Unparent(os, c) EXCEPT ![c].parent = p, ![p].children = Append(@, c)]

\* delete holder[ name ] when it refers to obj
DeleteRef(os, holder, obj) ==
  IF MapGet(os[holder].refs, os[obj].name) = obj
  THEN [os EXCEPT ![holder].refs = MapDel(@, os[obj].name)]
  ELSE os

\* the parent of the parent of obj, null when there is none
GrandParent(os, obj) ==
  IF os[obj].parent = NoObj THEN NoObj ELSE os[os[obj].parent].parent

\* the name-reference removal shared by recycle and recursiveRemoveChildren:
\* an anchored object's reference lives on the anchor's parent
RemoveNameRef(os, obj) ==
  IF os[obj].name = <<>> \/ os[obj].parent = NoObj THEN os
  ELSE IF /\ os[obj].anchored # {}
          /\ GrandParent(os, obj) # NoObj
          /\ MapGet(os[GrandParent(os, obj)].refs, os[obj].name) = obj
       THEN DeleteRef(os, GrandParent(os, obj), obj)
  ELSE DeleteRef(os, os[obj].parent, obj)

RECURSIVE recursiveRemoveChildren(_, _)
RECURSIVE RemoveChildrenFrom(_, _, _)

\* one child of o dismantled: its own subtree first (sub), then its name
\* reference and its link to o
RemoveChild(o, child, sub, removed) ==
  [objects |-> Remove(RemoveNameRef(sub.objects, child), o, child),
   removed |-> removed \o sub.removed \o <<child>>]

\* the loop of recursiveRemoveChildren over this.children, last child first;
\* acc is the heap and the list of objects removed so far
RemoveChildrenFrom(acc, o, i) ==
  IF i = 0 THEN acc
  ELSE RemoveChildrenFrom(
         RemoveChild(o, acc.objects[o].children[i],
                     recursiveRemoveChildren(acc.objects, acc.objects[o].children[i]),
                     acc.removed),
         o, i - 1)

\* obj.recursiveRemoveChildren(): dismantles the subtree below o and returns
\* the removed descendants, each after its own descendants
recursiveRemoveChildren(os, o) ==
  RemoveChildrenFrom([objects |-> os, removed |-> <<>>], o, Len(os[o].children))

\* what a walk up the parents returns when it never ends: the hierarchy has a
\* cycle and the recursion overflows the stack (a RangeError)
Overflow == 0 - 1

RECURSIVE FlaggedAncestor(_, _, _, _)
\* the nearest of o and its ancestors whose field flag is set, NoObj when there
\* is none, Overflow when the walk does not end within fuel steps
FlaggedAncestor(os, o, flag, fuel) ==
  IF o = NoObj THEN NoObj
  ELSE IF os[o][flag] THEN o
  ELSE IF fuel = 0 THEN Overflow
  ELSE FlaggedAncestor(os, os[o].parent, flag, fuel - 1)

\* obj.parentInstance(): the nearest of obj and its ancestors flagged isInstance
parentInstance(os, o) == FlaggedAncestor(os, o, "isInstance", Len(os))

\* obj.nearestTemplate(): the nearest of obj and its ancestors flagged isTemplate
nearestTemplate(os, o) == FlaggedAncestor(os, o, "isTemplate", Len(os))

RECURSIVE DeeperThan(_, _, _)
\* whether a chain of children of length fuel starts at o
DeeperThan(os, o, fuel) ==
  IF fuel = 0 THEN TRUE
  ELSE \E i \in 1..Len(os[o].children) : DeeperThan(os, os[o].children[i], fuel - 1)

\* whether the hierarchy below o contains a cycle, on which
\* recursiveRemoveChildren overflows the stack before it removes anything
SubtreeCyclic(os, o) == DeeperThan(os, o, Len(os))

\* ---------------------------------------------------------------- object pool
\* recycle's classification of an object into a pool key ("" = not stored)
TypeName(o) ==
  IF o.cls = "PixelBox" THEN o.asset
  ELSE IF o.cls = "DirectionalLight" THEN "DirectionalLight"
  ELSE IF o.cls = "HemisphereLight" THEN "HemisphereLight"
  ELSE IF o.cls = "PointLight" THEN "PointLight"
  ELSE IF o.cls = "SpotLight" THEN "SpotLight"
  ELSE IF o.cls \in MeshClasses THEN "Geometry"
  ELSE IF o.cls = "PerspectiveCamera" THEN "Camera"
  ELSE IF o.cls = "OrthographicCamera" THEN "OrthographicCamera"
  ELSE IF o.cls = "LinePath" THEN "LinePath"
  ELSE IF o.cls = "Object3D" /\ o.isContainer THEN "Object3D"
  ELSE ""

\* recycle sets containsLights for the four pooled light classes
IsPooledLight(o) ==
  o.cls \in {"DirectionalLight", "HemisphereLight", "PointLight", "SpotLight"}

\* the object put at the bottom of its stack, as unshift would
PoolUnshift(pool, key, o) ==
  IF key \in DOMAIN pool THEN [pool EXCEPT ![key] = <<o>> \o @]
  ELSE MapPut(pool, key, <<o>>)

\* this.objectPool[ typeName ].push( obj ), creating the stack when missing
PoolPush(pool, key, o) ==
  IF key \in DOMAIN pool THEN [pool EXCEPT ![key] = Append(@, o)]
  ELSE MapPut(pool, key, <<o>>)

\* if ( typeName ) store obj under typeName
Store(w, o, key) ==
  IF key = "" THEN w
  ELSE [w EXCEPT !.objectPool = PoolPush(@, key, o), !.pending = Append(@, <<key, o>>),
                 !.trace = Append(@, <<"recycle", key, o>>)]

RECURSIVE StoreAll(_, _, _)
\* recycle's inner loop: classify and store each dismantled object
StoreAll(w, objs, i) ==
  IF i > Len(objs) THEN w
  ELSE StoreAll(Store(w, objs[i], TypeName(w.objects[objs[i]])), objs, i + 1)

\* if ( obj.parent ) { drop the name reference; obj.parent.remove( obj ) }
Detach(os, obj) ==
  IF os[obj].parent # NoObj THEN Remove(RemoveNameRef(os, obj), os[obj].parent, obj)
  ELSE os

\* one entry of scrap: sub is what obj.recursiveRemoveChildren() left and returned
RecycleOne(w, obj, sub) ==
  StoreAll([w EXCEPT !.objects = Detach(sub.objects, obj)], Append(sub.removed, obj), 1)

\* whether obj or an object below it is of a pooled light class
SubtreeHasLight(os, obj, sub) ==
  \E o \in SeqSet(sub.removed) \cup {obj} : IsPooledLight(os[o])

RECURSIVE RecycleFrom(_, _, _, _)

\* the body of recycle's outer loop for scrap[ si ], sub being what
\* obj.recursiveRemoveChildren() left and returned
RecycleNext(w, scrap, si, containsLights, sub) ==
  RecycleFrom(RecycleOne(w, scrap[si], sub), scrap, si + 1,
              containsLights \/ SubtreeHasLight(w.objects, scrap[si], sub))

\* recycle's outer loop over scrap
RecycleFrom(w, scrap, si, containsLights) ==
  IF si > Len(scrap)
  THEN IF containsLights THEN [w EXCEPT !.updateLights = TRUE] ELSE w
  ELSE IF SubtreeCyclic(w.objects, scrap[si]) THEN [w EXCEPT !.thrown = TRUE]
  ELSE RecycleNext(w, scrap, si, containsLights,
                   recursiveRemoveChildren(w.objects, scrap[si]))

\* THREE.PixelBoxScene.prototype.recycle( scrap ), scrap a list of objects
recycle(w, scrap) == RecycleFrom(w, scrap, 1, FALSE)

\* removes the newest pending entry <<key, obj>> (history only)
DropPending(p, key, obj) ==
  LET hits == {i \in 1..Len(p) : p[i] = <<key, obj>>}
  IN IF hits = {} THEN p
     ELSE SeqCut(p, CHOOSE i \in hits : \A j \in hits : j <= i)

\* the entry a queue would hand out: the oldest
UpcycleOldest(stack) == 1

\* the entry upcycle takes from a non-empty stack
UpcyclePick(stack) == Len(stack)

\* obj = stack[ at ]; the entry leaves the stack
Pop(w, objType, at) ==
  [w EXCEPT !.objectPool[objType] = SeqCut(@, at),
            !.pending = DropPending(@, objType, w.objectPool[objType][at]),
            !.trace = Append(@, <<"upcycle", objType, w.objectPool[objType][at]>>),
            !.val = w.objectPool[objType][at]]

\* THREE.PixelBoxScene.prototype.upcycle( objType ): the result is w.val
upcycle(w, objType) ==
  IF objType \in DOMAIN w.objectPool /\ Len(w.objectPool[objType]) > 0
  THEN Pop(w, objType, UpcyclePick(w.objectPool[objType]))
  ELSE [w EXCEPT !.val = NoObj, !.trace = Append(@, <<"upcycle", objType, NoObj>>)]

\* ---------------------------------------------------------------- LayerDefs
NoTarget == [kind |-> "undefined", arr |-> <<>>, str |-> <<>>]
\* target: [ x, y, z ]
TargetArray(a) == [kind |-> "array", arr |-> a, str |-> <<>>]
\* target: '#path' (or any other string)
TargetString(s) == [kind |-> "string", arr |-> <<>>, str |-> s]
\* target: true, as the linker marks a resolved reference
TargetTrue == [kind |-> "true", arr |-> <<>>, str |-> <<>>]

\* a def.props value: a string or any other JSON value
PropString(s) == [kind |-> "string", str |-> s, val |-> 0]
PropValue(v) == [kind |-> "value", str |-> <<>>, val |-> v]
\* a property the linker bound to an object
PropObject(o) == [kind |-> "object", str |-> <<>>, val |-> o]

\* a LayerDef with only its asset given; every other field undefined
LayerDef(asset) ==
  [asset |-> asset, name |-> <<>>, anchor |-> <<>>, template |-> "",
   target |-> NoTarget, layers |-> <<>>, containsTemplates |-> <<>>,
   isTemplate |-> FALSE, isDefault |-> FALSE,
   castShadow |-> {}, receiveShadow |-> {},
   position |-> {}, rotation |-> {}, scale |-> {}, visible |-> {}, zoom |-> {},
   props |-> EmptyMap, mesh |-> "", widthSegments |-> {}]

RECURSIVE DeepValue(_, _)
\* the value a deep copy of LayerDef id holds: child LayerDefs are copied too
DeepValue(ds, id) ==
  [ds[id] EXCEPT !.layers = [i \in 1..Len(ds[id].layers) |-> DeepValue(ds, ds[id].layers[i])]]

\* the identity of the g-th clone cell of object o
CloneId(o, g) == 0 - (o + g * (MaxObj + 1))

\* the clone cells of o that were neither live when the call began nor
\* allocated since
FreeCells(w, o) == {g \in 0..Cardinality(w.inUse) : CloneId(o, g) \notin w.inUse}

\* the identity of the next clone an object retains
NextCloneId(w, o) ==
  CloneId(o, CHOOSE g \in FreeCells(w, o) : \A h \in FreeCells(w, o) : g <= h)

\* _deepClone( layer, 100 ) into the new cell fresh: [defs, id]
deepClone(ds, layer, fresh) ==
  [defs |-> MapPut(ds, fresh, DeepValue(ds, layer)), id |-> fresh]

\* obj3d.def = c, the clone just made; the def retained before becomes garbage
Retain(w, o, layer, c) ==
  [w EXCEPT !.defs = IF w.objects[o].def < 0 /\ w.objects[o].def # c.id
                     THEN MapDel(c.defs, w.objects[o].def) ELSE c.defs,
            !.inUse = @ \cup {c.id},
            !.objects[o].def = c.id,
            !.objects[o].src = layer]

\* obj3d.def = layer: the object would retain the caller's LayerDef itself
StoreAlias(w, o, layer) == [w EXCEPT !.objects[o].def = layer, !.objects[o].src = layer]

\* obj3d.def = _deepClone( layer, 100 )
StoreDef(w, o, layer) == Retain(w, o, layer, deepClone(w.defs, layer, NextCloneId(w, o)))

\* ---------------------------------------------------------------- strings
StartsWith(s, c) == Len(s) > 0 /\ s[1] = c
\* s.substr( 1 )
Substr1(s) == IF Len(s) = 0 THEN <<>> ELSE Tail(s)

RECURSIVE SplitFrom(_, _, _, _)
SplitFrom(s, i, cur, acc) ==
  IF i > Len(s) THEN Append(acc, cur)
  ELSE IF s[i] = "." THEN SplitFrom(s, i + 1, <<>>, Append(acc, cur))
  ELSE SplitFrom(s, i + 1, Append(cur, s[i]), acc)

\* s.split( '.' ): the empty string splits into one empty fragment
Split(s) == SplitFrom(s, 1, <<>>, <<>>)

\* ---------------------------------------------------------------- linker
\* the indices of the children of level whose name is exactly first
NamedAt(os, level, first) ==
  {i \in 1..Len(os[level].children) : os[os[level].children[i]].name = first}

\* the first child of level whose name is exactly first, or null
ChildNamed(os, level, first) ==
  IF NamedAt(os, level, first) = {} THEN NoObj
  ELSE os[level].children[CHOOSE i \in NamedAt(os, level, first) :
                             \A j \in NamedAt(os, level, first) : i <= j]

\* the object one '$' fragment finds in the anchors map of level (null: none)
AnchorLookup(os, level, first) ==
  IF StartsWith(first, "$") /\ os[level].hasAnchors
  THEN MapGet(os[level].anchors, Substr1(first))
  ELSE NoObj

\* the name with its '$' always taken off
ChildKeyPlain(os, level, first) == IF StartsWith(first, "$") THEN Substr1(first) ELSE first

\* the name the children are searched for: '$name' loses its '$' only when
\* the level has no anchors map
ChildKey(os, level, first) ==
  IF StartsWith(first, "$") /\ ~os[level].hasAnchors THEN Substr1(first) ELSE first

\* the object the fragment first names at currentLevel, or null
Fragment(os, currentLevel, first) ==
  IF AnchorLookup(os, currentLevel, first) # NoObj
  THEN AnchorLookup(os, currentLevel, first)
  ELSE ChildNamed(os, currentLevel, ChildKey(os, currentLevel, first))

RECURSIVE Descend(_, _, _)

\* the rest of the fragments after the first one found obj
DescendFrom(os, rest, obj) ==
  IF obj = NoObj THEN [obj |-> NoObj, thrown |-> FALSE]
  ELSE IF Len(rest) > 0 THEN Descend(os, rest, obj)
  ELSE [obj |-> obj, thrown |-> FALSE]

\* dereferenceObject on an array of fragments: [obj, thrown]; reading
\* currentLevel.children of a missing level is a TypeError
Descend(os, nameFragments, currentLevel) ==
  IF Len(nameFragments) = 0 THEN [obj |-> NoObj, thrown |-> FALSE]
  ELSE IF currentLevel = NoObj THEN [obj |-> NoObj, thrown |-> TRUE]
  ELSE DescendFrom(os, Tail(nameFragments),
                   Fragment(os, currentLevel, Head(nameFragments)))

\* dereferenceObject( path, currentLevel ) on a string
dereferenceObject(os, path, currentLevel) == Descend(os, Split(path), currentLevel)

\* the scope when the nearest template is never asked for
ScopeTop(nt, top) == top

\* nearestTemplate ? nearestTemplate : top
ScopeOr(nt, top) == IF nt = NoObj THEN top ELSE nt

\* the scope a reference of obj is resolved in
LinkScope(os, obj, top) == ScopeOr(nearestTemplate(os, obj), top)

\* dereferenceObject( path, scope ); a walk to the nearest template that
\* never ends is a RangeError
ResolveIn(os, path, scope) ==
  IF scope = Overflow THEN [obj |-> NoObj, thrown |-> TRUE]
  ELSE dereferenceObject(os, path, scope)

\* found = dereferenceObject( propVal.substr( 1 ), nearestTemplate ? nearestTemplate : top )
Resolve(os, obj, top, propVal) == ResolveIn(os, Substr1(propVal), LinkScope(os, obj, top))

\* the target bound, the reference kept in the definition
BindTargetOnly(w, obj, found) ==
  IF found.thrown THEN [w EXCEPT !.thrown = TRUE]
  ELSE IF found.obj # NoObj THEN [w EXCEPT !.objects[obj].target = found.obj]
  ELSE w

\* if ( found ) { obj.target = found; obj.def.target = true; }
BindTarget(w, obj, found) ==
  IF found.thrown THEN [w EXCEPT !.thrown = TRUE]
  ELSE IF found.obj # NoObj
       THEN [w EXCEPT !.objects[obj].target = found.obj,
                      !.defs[w.objects[obj].def].target = TargetTrue]
  ELSE w

\* whether a def value is a string that begins with '#'
IsReference(propVal) == propVal.kind = "string" /\ StartsWith(propVal.str, "#")

\* linkObjects: the .target reference of a directional or spot light; an
\* object that has no def is a TypeError
LinkTarget(w, obj, top) ==
  IF w.objects[obj].cls \notin {"SpotLight", "DirectionalLight"} THEN w
  ELSE IF w.objects[obj].def = NoDef THEN [w EXCEPT !.thrown = TRUE]
  ELSE IF IsReference(w.defs[w.objects[obj].def].target)
       THEN BindTarget(w, obj, Resolve(w.objects, obj, top,
                                       w.defs[w.objects[obj].def].target.str))
  ELSE w

\* if ( found ) obj[ propName ] = found
BindProp(w, obj, propName, found) ==
  IF found.thrown THEN [w EXCEPT !.thrown = TRUE]
  ELSE IF found.obj # NoObj
       THEN [w EXCEPT !.objects[obj].props = MapPut(@, propName, PropObject(found.obj))]
  ELSE w

\* linkObjects: one entry of obj.def.props
LinkProp(w, obj, top, propName, propVal) ==
  IF IsReference(propVal)
  THEN BindProp(w, obj, propName, Resolve(w.objects, obj, top, propVal.str))
  ELSE [w EXCEPT !.objects[obj].props = MapPut(@, propName, propVal)]

RECURSIVE LinkProps(_, _, _, _)
\* linkObjects: the entries of obj.def.props still to do
LinkProps(w, obj, top, todo) ==
  IF todo = {} \/ w.thrown THEN w
  ELSE LinkProps(LinkProp(w, obj, top, CHOOSE n \in todo : TRUE,
                          w.defs[w.objects[obj].def].props[CHOOSE n \in todo : TRUE]),
                 obj, top, todo \ {CHOOSE n \in todo : TRUE})

\* this.updateMaterials = this.updateLights = this.updateLights || (obj instanceof THREE.Light)
MarkLights(w, obj) ==
  [w EXCEPT !.updateLights = w.updateLights \/ w.objects[obj].cls \in LightClasses,
            !.updateMaterials = w.updateLights \/ w.objects[obj].cls \in LightClasses]

\* if ( obj.def.props && !skipProps ) ...
LinkPropsOf(w, obj, top, skipProps) ==
  IF w.thrown THEN w
  ELSE IF w.objects[obj].def = NoDef THEN [w EXCEPT !.thrown = TRUE]
  ELSE IF skipProps THEN w
  ELSE LinkProps(w, obj, top, DOMAIN w.defs[w.objects[obj].def].props)

\* one iteration of the loop of linkObjects
LinkOne(w, obj, top, skipProps) ==
  LinkPropsOf(LinkTarget(MarkLights(w, obj), obj, top), obj, top, skipProps)

RECURSIVE LinkFrom(_, _, _, _, _)
LinkFrom(w, objs, i, top, skipProps) ==
  IF i > Len(objs) \/ w.thrown THEN w
  ELSE LinkFrom(LinkOne(w, objs[i], top, skipProps), objs, i + 1, top, skipProps)

\* THREE.PixelBoxScene.prototype.linkObjects( objs, top, skipProps )
linkObjects(w, objs, top, skipProps) == LinkFrom(w, objs, 1, top, skipProps)

\* ---------------------------------------------------------------- construction
\* new THREE.<cls>(): the new object is w.val
Construct(w, rec) ==
  [w EXCEPT !.objects = Append(@, rec),
            !.fresh = @ \cup {Len(w.objects) + 1},
            !.val = Len(w.objects) + 1]

\* the anchor node w.val becomes a child of box and its anchors[ name ]
AnchorMade(w, box, name) ==
  [w EXCEPT !.objects = [Add(@, box, w.val) EXCEPT ![box].anchors = MapPut(@, name, w.val)]]

RECURSIVE AddAnchors(_, _, _, _)
\* the anchor nodes a PixelBox builds from its asset, each a child of the box
AddAnchors(w, box, names, i) ==
  IF i > Len(names) THEN w
  ELSE AddAnchors(AnchorMade(Construct(w, [BlankObject("Object3D") EXCEPT
                                             !.name = names[i], !.isAnchor = TRUE]),
                             box, names[i]),
                  box, names, i + 1)

\* new THREE.PixelBox( asset ): the new box is w.val
NewPixelBox(w, assetName) ==
  [AddAnchors(Construct(w, [BlankObject("PixelBox") EXCEPT !.asset = assetName,
                                                          !.hasAnchors = TRUE]),
              Len(w.objects) + 1, w.assets[assetName].anchors, 1)
     EXCEPT !.val = Len(w.objects) + 1]

\* the placeholder of an asset that is not loaded: an Object3D that carries
\* an AxisHelper; the placeholder is w.val
NewPlaceholder(w) ==
  [Construct(Construct(w, [BlankObject("Object3D") EXCEPT !.isPlaceholder = TRUE]),
             [BlankObject("AxisHelper") EXCEPT !.isHelper = TRUE])
     EXCEPT !.objects = Add(@, Len(w.objects) + 1, Len(w.objects) + 2),
            !.val = Len(w.objects) + 1]

\* ---------------------------------------------------------------- populateObject
\* options.templates[ name ], 0 when the map or the entry is missing
TemplateOf(options, name) ==
  IF options.templates = {} THEN 0
  ELSE IF name \in DOMAIN (CHOOSE t \in options.templates : TRUE)
       THEN (CHOOSE t \in options.templates : TRUE)[name]
  ELSE 0

\* a frame of the loop of populateObject: the world, the loop's options and
\* objectsCreated, and the current layer's obj3d and helper
Frame(w, options, objectsCreated) ==
  [w |-> w, options |-> options, objectsCreated |-> objectsCreated,
   obj3d |-> NoObj, helper |-> NoObj]

Throw(f) == [f EXCEPT !.w.thrown = TRUE]

\* obj3d = the object just constructed in world w
Made(f, w) == [f EXCEPT !.w = w, !.obj3d = w.val]

\* if ( !obj3d ) obj3d = new THREE.<cls>()
OrNew(f, cls) ==
  IF f.obj3d # NoObj THEN f ELSE Made(f, Construct(f.w, BlankObject(cls)))

\* helper = the object just constructed in world w
HelperMade(f, w) == [f EXCEPT !.w = w, !.helper = w.val]

\* if ( options.helpers ) helper = new THREE.<cls>Helper( obj3d )
WithHelper(f, cls) ==
  IF f.w.thrown \/ ~f.options.helpers THEN f
  ELSE HelperMade(f, Construct(f.w, BlankObject(cls)))

\* if ( this.camera && this.camera.parent ) this.camera.parent.remove( this.camera );
\* this.camera = obj3d
InstallCamera(w, obj3d) ==
  [w EXCEPT !.objects = IF w.camera # NoObj THEN Unparent(@, w.camera) ELSE @,
            !.camera = obj3d]

\* obj3d.isDefault = layer.isDefault ? true : false
MarkDefault(f, layer) ==
  IF f.w.thrown THEN f ELSE [f EXCEPT !.w.objects[f.obj3d].isDefault = layer.isDefault]

\* if ( !options.keepSceneCamera && obj3d.isDefault ) the camera becomes the scene's
InstallDefault(f, layer) ==
  IF f.w.thrown THEN f
  ELSE IF ~f.options.keepSceneCamera /\ layer.isDefault
       THEN [f EXCEPT !.w = InstallCamera(f.w, f.obj3d)]
  ELSE f

\* case 'Camera'
CameraCase(f, layer) ==
  WithHelper(InstallDefault(MarkDefault(OrNew(f, "PerspectiveCamera"), layer), layer),
             "CameraHelper")

\* the acquisition of case 'OrthographicCamera': inside the editor a new
\* camera is constructed whatever the pool returned
OrthoAcquire(f) ==
  IF f.options.keepSceneCamera
  THEN Made(f, Construct(f.w, BlankObject("OrthographicCamera")))
  ELSE OrNew(f, "OrthographicCamera")

\* if ( layer.zoom != undefined ) obj3d.zoom = layer.zoom
Zoom(f, layer) ==
  IF layer.zoom # {}
  THEN [f EXCEPT !.w.objects[f.obj3d].zoom = CHOOSE z \in layer.zoom : TRUE]
  ELSE f

\* if ( layer.isDefault && ... && !this.camera.def ) the camera the
\* constructor made leaves its parent; it is a TypeError when there is no
\* camera or when it has no parent
ReplaceFirstCamera(f, layer) ==
  IF ~layer.isDefault THEN f
  ELSE IF f.w.camera = NoObj THEN Throw(f)
  ELSE IF f.w.objects[f.w.camera].def # NoDef THEN f
  ELSE IF f.w.objects[f.w.camera].parent = NoObj THEN Throw(f)
  ELSE [f EXCEPT !.w.objects = Unparent(@, f.w.camera), !.w.camera = f.obj3d]

\* case 'OrthographicCamera'
OrthographicCameraCase(f, layer) ==
  WithHelper(InstallDefault(MarkDefault(ReplaceFirstCamera(Zoom(OrthoAcquire(f), layer),
                                                           layer),
                                        layer),
                            layer),
             "CameraHelper")

\* obj3d.target = the object just constructed in world w
TargetMade(w, obj3d) == [w EXCEPT !.objects[obj3d].target = w.val]

\* the target of a directional or spot light: an array of three makes a new
\* detached target object at that position; anything else leaves obj3d.target
LightTarget(w, obj3d, layer) ==
  IF layer.target.kind = "array" /\ Len(layer.target.arr) = 3
  THEN TargetMade(Construct(w, [BlankObject("Object3D") EXCEPT
                                  !.position = layer.target.arr]),
                  obj3d)
  ELSE w

Targeted(f, layer) == [f EXCEPT !.w = LightTarget(f.w, f.obj3d, layer)]

\* case 'DirectionalLight' and case 'SpotLight'
ShadowLightCase(f, layer, cls) ==
  WithHelper(Targeted(OrNew(f, cls), layer),
             IF cls = "SpotLight" THEN "SpotLightHelper" ELSE "DirectionalLightHelper")

\* case 'PointLight'
PointLightCase(f, layer) == WithHelper(OrNew(f, "PointLight"), "PointLightHelper")

\* case 'HemisphereLight'
HemisphereLightCase(f, layer) == OrNew(f, "HemisphereLight")

\* obj3d.isContainer = true
MarkContainer(f) == [f EXCEPT !.w.objects[f.obj3d].isContainer = TRUE]

\* case 'Object3D'
Object3DCase(f, layer) == MarkContainer(OrNew(f, "Object3D"))

\* case 'LinePath'
LinePathCase(f, layer) == OrNew(f, "LinePath")

\* val = layer[ p ] !== undefined ? layer[ p ] : def; val = Math.max( min, val )
Param(given, def, min) ==
  IF (IF given # {} THEN CHOOSE v \in given : TRUE ELSE def) < min THEN min
  ELSE IF given # {} THEN CHOOSE v \in given : TRUE
  ELSE def

\* makeGeometryObject( layer ): writes the resolved parameter back into layer
makeGeometryObject(w, layerId) ==
  [w EXCEPT !.defs[layerId].widthSegments =
              {IF w.defs[layerId].mesh = "Sphere" THEN Param(@, 8, 3) ELSE Param(@, 1, 1)}]

\* var geom = this.makeGeometryObject( layer )
Geometry(f, layerId) == [f EXCEPT !.w = makeGeometryObject(f.w, layerId)]

\* obj3d.geometryType = layer.mesh
GeometryType(f, layerId) ==
  [f EXCEPT !.w.objects[f.obj3d].geometryType = f.w.defs[layerId].mesh]

\* case 'Geometry'
GeometryCase(f, layerId) == GeometryType(OrNew(Geometry(f, layerId), "Mesh"), layerId)

\* lookup asset by name, an asset that is not loaded being an error
AssetStrict(f, layer) ==
  IF f.obj3d # NoObj THEN f
  ELSE IF layer.asset \in DOMAIN f.w.assets THEN Made(f, NewPixelBox(f.w, layer.asset))
  ELSE Throw(f)

\* default: lookup asset by name
AssetCase(f, layer) ==
  IF f.obj3d # NoObj THEN f
  ELSE IF layer.asset \in DOMAIN f.w.assets THEN Made(f, NewPixelBox(f.w, layer.asset))
  ELSE Made(f, NewPlaceholder(f.w))

\* ---------------------------------------------------------------- common finalization
\* var degToRad = Math.PI / 180, in millionths of a radian per degree
DegToRad == 17453

\* the property name the scene defines as an accessor of this._camera
CameraName == <<"c", "a", "m", "e", "r", "a">>

\* object[ name ] = obj3d: on the scene, 'camera' is the camera setter
SetRef(w, object, name, obj3d) ==
  IF object = SceneObj /\ name = CameraName THEN [w EXCEPT !.camera = obj3d]
  ELSE [w EXCEPT !.objects[object].refs = MapPut(@, name, obj3d)]

\* if ( layer.name ) obj3d.name = layer.name
SetName(w, obj3d, name) ==
  IF name # <<>> THEN [w EXCEPT !.objects[obj3d].name = name] ELSE w

\* store definition; set name
Retained(f, layerId) ==
  IF f.w.thrown THEN f
  ELSE [f EXCEPT !.w = SetName(StoreDef(f.w, f.obj3d, layerId), f.obj3d,
                               f.w.defs[layerId].name)]

\* obj3d.anchored = layer.anchor ? layer.anchor : false
Anchored(layer) == IF layer.anchor # <<>> THEN {layer.anchor} ELSE {}

\* parent.add( obj3d ); obj3d.anchored = ...
AddTo(f, parent, layer) ==
  [f EXCEPT !.w.objects = [Add(@, parent, f.obj3d) EXCEPT ![f.obj3d].anchored = Anchored(layer)]]

\* add as a child: into the anchor layer.anchor names when object has an
\* anchors map (a TypeError when it has no such anchor), else to object
\* itself; only an object that has no parent
AttachChild(f, object, layer) ==
  IF f.w.thrown \/ f.w.objects[f.obj3d].parent # NoObj \/ object = NoObj THEN f
  ELSE IF layer.anchor # <<>> /\ f.w.objects[object].hasAnchors
       THEN IF MapGet(f.w.objects[object].anchors, layer.anchor) = NoObj THEN Throw(f)
            ELSE AddTo(f, MapGet(f.w.objects[object].anchors, layer.anchor), layer)
  ELSE AddTo(f, object, layer)

\* layer.scale: a scalar s, or an array; a scalar 0 is falsy
ScaleOf(v) ==
  IF v.isArray THEN v.arr ELSE IF v.val = 0 THEN One3 ELSE Vec(v.val, v.val, v.val)

\* layer.rotation, degrees to radians
RotationOf(r) == Vec(r[1] * DegToRad, r[2] * DegToRad, r[3] * DegToRad)

\* position, rotation, scale, castShadow, receiveShadow, visible
CommonValues(o, layer) ==
  [o EXCEPT !.position = IF layer.position # {} THEN CHOOSE v \in layer.position : TRUE
                         ELSE IF o.cls # "HemisphereLight" THEN Zero3
                         ELSE @,
            !.rotation = IF layer.rotation # {}
                         THEN RotationOf(CHOOSE v \in layer.rotation : TRUE) ELSE Zero3,
            !.scale = IF layer.scale # {} THEN ScaleOf(CHOOSE v \in layer.scale : TRUE)
                      ELSE One3,
            !.castShadow = IF layer.castShadow # {}
                           THEN CHOOSE b \in layer.castShadow : TRUE ELSE @,
            !.receiveShadow = IF layer.receiveShadow # {}
                              THEN CHOOSE b \in layer.receiveShadow : TRUE ELSE @,
            !.visible = IF layer.visible # {}
                        THEN CHOOSE b \in layer.visible : TRUE ELSE TRUE]

\* assign common values
Valued(w, obj3d, layer) == [w EXCEPT !.objects[obj3d] = CommonValues(@, layer)]

\* if ( helper ) { this.scene.add( helper ); ... helper.visible = false }
AttachHelper(w, obj3d, helper) ==
  IF helper = NoObj THEN w
  ELSE [w EXCEPT !.objects = [Add(@, SceneObj, helper) EXCEPT ![obj3d].helper = helper,
                                                              ![helper].isHelper = TRUE,
                                                              ![helper].visible = FALSE]]

RECURSIVE ReAddAnchors(_, _, _)
\* re-add anchors if removed
ReAddAnchors(os, box, todo) ==
  IF todo = {} THEN os
  ELSE ReAddAnchors(IF os[os[box].anchors[CHOOSE n \in todo : TRUE]].parent = NoObj
                    THEN Add(os, box, os[box].anchors[CHOOSE n \in todo : TRUE])
                    ELSE os,
                    box, todo \ {CHOOSE n \in todo : TRUE})

\* PixelBox specific
PixelBoxSpecific(w, obj3d) ==
  IF ~w.objects[obj3d].isInstance /\ w.objects[obj3d].cls = "PixelBox"
  THEN [w EXCEPT !.objects = ReAddAnchors(@, obj3d, DOMAIN @[obj3d].anchors)]
  ELSE w

\* add as a name reference
NameReference(w, object, layer, options, obj3d) ==
  IF layer.name # <<>> /\ ~options.noNameReferences /\ object # NoObj
  THEN SetRef(w, object, layer.name, obj3d)
  ELSE w

\* everything from the common values to the name reference
Configured(f, object, layer) ==
  IF f.w.thrown THEN f
  ELSE [f EXCEPT !.w = NameReference(
                         PixelBoxSpecific(
                           AttachHelper(Valued(f.w, f.obj3d, layer), f.obj3d, f.helper),
                           f.obj3d),
                         object, layer, f.options, f.obj3d)]

\* everything between the type switch and objectsCreated.splice
Finalize(f, object, layerId) ==
  Configured(AttachChild(Retained(f, layerId), object, f.w.defs[layerId]),
             object, f.w.defs[layerId])

\* ---------------------------------------------------------------- the loop
RECURSIVE populateObject(_, _, _, _)
RECURSIVE PopulateFrom(_, _, _, _)
RECURSIVE ContainsTemplates(_, _, _)

\* the position objectsCreated.splice inserts obj3d at
SplicePosition(objectsCreated) == 0

\* objectsCreated.splice( 0, 0, obj3d )
Splice(objectsCreated, obj3d) ==
  SubSeq(objectsCreated, 1, SplicePosition(objectsCreated)) \o <<obj3d>>
    \o SubSeq(objectsCreated, SplicePosition(objectsCreated) + 1, Len(objectsCreated))

Spliced(f) == IF f.w.thrown THEN f ELSE [f EXCEPT !.objectsCreated = Splice(@, f.obj3d)]

\* what a callback the caller passes does with the scene: nothing ("none"),
\* or one of: return the skip sentinel ("skip"), construct an object of
\* class cls and return it ("object"), call scene.upcycle( key ) and return
\* what it returns ("upcycle"), call scene.recycle( scrap ) ("recycle"),
\* call scene.populateObject( obj3d, layers ) ("populate")
Callback(kind) == [kind |-> kind, cls |-> "", key |-> "", scrap |-> <<>>, layers |-> <<>>]

\* the callback of the map cbs for layer, "none" when the map has none
CallbackFor(cbs, layerId) ==
  IF layerId \in DOMAIN cbs THEN cbs[layerId] ELSE Callback("none")

\* populateObject's options, all absent
NoOptions ==
  [makeObject |-> EmptyMap, initObject |-> EmptyMap, templates |-> {}, helpers |-> FALSE,
   keepSceneCamera |-> FALSE, wrapTemplates |-> FALSE, noNameReferences |-> FALSE,
   skipProps |-> FALSE]

\* options.makeObject( layer ) === -1
MakeObjectSkips(options, layerId) == CallbackFor(options.makeObject, layerId).kind = "skip"

\* the step of the loop noted in the history
Noted(f, step, layerId, ready) ==
  [f EXCEPT !.w.order = Append(@, <<step, layerId, f.obj3d, ready>>)]

\* if ( options.makeObject ): the callback is called for layer
Called(f, layerId) ==
  IF layerId \in DOMAIN f.options.makeObject THEN Noted(f, "makeObject", layerId, TRUE)
  ELSE f

\* obj3d = the object this.upcycle returned in world w
Got(f, w) == [f EXCEPT !.w = w, !.obj3d = w.val, !.helper = NoObj]

\* obj3d = options.makeObject( layer ), cb being what the callback does
MakeObject(f, cb) ==
  CASE cb.kind = "object" -> Made(f, Construct(f.w, BlankObject(cb.cls)))
    [] cb.kind = "upcycle" -> Got(f, upcycle(f.w, cb.key))
    [] cb.kind = "recycle" -> [f EXCEPT !.w = recycle(f.w, cb.scrap)]
    [] OTHER -> f

\* if ( !obj3d && layer.asset != 'Instance' ) obj3d = this.upcycle( layer.asset )
FromPool(f, layerId) ==
  IF f.w.thrown \/ f.obj3d # NoObj \/ f.w.defs[layerId].asset = "Instance" THEN f
  ELSE Got(f, upcycle(f.w, f.w.defs[layerId].asset))

\* var obj3d = null; var helper = null;
\* if ( options.makeObject ) obj3d = options.makeObject( layer ); ...
Acquire(f, layerId) ==
  FromPool(MakeObject(Called([f EXCEPT !.obj3d = NoObj, !.helper = NoObj], layerId),
                      CallbackFor(f.options.makeObject, layerId)),
           layerId)

\* the acquisition noted in the history
Acquired(f, layerId) == IF f.w.thrown THEN f ELSE Noted(f, "acquired", layerId, TRUE)

\* whether obj3d is as the callback initObject is to find it: with its def,
\* attached when there is a parent to attach to, and listed
Ready(f, object) ==
  /\ f.w.objects[f.obj3d].def # NoDef
  /\ object # NoObj => f.w.objects[f.obj3d].parent # NoObj
  /\ f.obj3d \in SeqSet(f.objectsCreated)

\* the listing noted in the history
Listed(f, layerId) == IF f.w.thrown THEN f ELSE Noted(f, "listed", layerId, TRUE)

\* topmost.omit = true, its transform left as the template gives it
WrapUnreset(f, wrapper, objs, w1) ==
  IF w1.thrown THEN [f EXCEPT !.w = w1]
  ELSE [f EXCEPT !.w = [w1 EXCEPT !.objects[objs[1]].omit = TRUE],
                 !.obj3d = wrapper,
                 !.objectsCreated = @ \o objs]

\* topmost.omit = true; its transform is reset; objectsCreated gains objs
WrapLinked(f, wrapper, objs, w1) ==
  IF w1.thrown THEN [f EXCEPT !.w = w1]
  ELSE [f EXCEPT !.w = [w1 EXCEPT !.objects[objs[1]] =
                           [@ EXCEPT !.omit = TRUE, !.position = Zero3, !.rotation = Zero3,
                                     !.scale = One3, !.visible = TRUE]],
                 !.obj3d = wrapper,
                 !.objectsCreated = @ \o objs]

\* var topmost = objs[ 0 ]; this.linkObjects( objs, topmost, !!options.skipProps );
\* r is what this.populateObject( obj3d, [ templateDef ], options ) returned
Wrapped(f, wrapper, r) ==
  IF r.w.thrown THEN [f EXCEPT !.w = r.w]
  ELSE IF Len(r.objs) = 0 THEN Throw([f EXCEPT !.w = r.w])
  ELSE WrapLinked(f, wrapper, r.objs,
                  linkObjects(r.w, r.objs, r.objs[1], f.options.skipProps))

\* the wrapper is w.val, the object just constructed in world w
WrapIn(f, w, templateDef) ==
  Wrapped(f, w.val, populateObject(w, w.val, <<templateDef>>, f.options))

\* options.wrapTemplates: a new container owns the template's root
WrappedInstance(f, templateDef) ==
  WrapIn(f, Construct(f.w, [BlankObject("Object3D") EXCEPT !.isInstance = TRUE,
                                                           !.isTemplate = FALSE]),
         templateDef)

\* obj3d = objs[ 0 ]; objs.splice( 0, 1 ); this.linkObjects( objs, obj3d, ... );
\* r is what this.populateObject( object, [ templateDef ], options ) returned
Unwrapped(f, r) ==
  IF r.w.thrown THEN [f EXCEPT !.w = r.w]
  ELSE IF Len(r.objs) = 0 THEN Throw([f EXCEPT !.w = r.w])
  ELSE [f EXCEPT !.w = linkObjects([r.w EXCEPT !.objects[r.objs[1]].isInstance = TRUE,
                                               !.objects[r.objs[1]].isTemplate = FALSE],
                                   Tail(r.objs), r.objs[1], f.options.skipProps),
                 !.obj3d = r.objs[1],
                 !.objectsCreated = @ \o Tail(r.objs)]

\* otherwise the template's root itself is the instance
UnwrappedInstance(f, object, templateDef) ==
  Unwrapped(f, populateObject(f.w, object, <<templateDef>>, f.options))

\* templateDef.<p> != undefined ? templateDef.<p> : true
OrTrue(given) == IF given # {} THEN CHOOSE b \in given : TRUE ELSE TRUE

\* copy some props from template
CopyTemplateProps(f, td) ==
  IF f.w.thrown THEN f
  ELSE [f EXCEPT !.w.objects[f.obj3d].castShadow = OrTrue(td.castShadow),
                 !.w.objects[f.obj3d].receiveShadow = OrTrue(td.receiveShadow)]

\* the Instance whose template is templateDef (0: not found)
InstanceOf(f, object, templateDef) ==
  IF templateDef = 0 THEN OrNew(f, "Object3D")
  ELSE CopyTemplateProps(IF f.options.wrapTemplates THEN WrappedInstance(f, templateDef)
                         ELSE UnwrappedInstance(f, object, templateDef),
                         f.w.defs[templateDef])

\* case 'Instance': from here on the loop's options have helpers off
InstanceCase(f, object, layer) ==
  IF f.obj3d # NoObj THEN f
  ELSE InstanceOf([f EXCEPT !.options.helpers = FALSE], object,
                  TemplateOf(f.options, layer.template))

\* switch( layer.asset )
TypeOf(f, object, layerId, layer) ==
  CASE layer.asset = "Instance" -> InstanceCase(f, object, layer)
    [] layer.asset = "Camera" -> CameraCase(f, layer)
    [] layer.asset = "OrthographicCamera" -> OrthographicCameraCase(f, layer)
    [] layer.asset = "DirectionalLight" -> ShadowLightCase(f, layer, "DirectionalLight")
    [] layer.asset = "SpotLight" -> ShadowLightCase(f, layer, "SpotLight")
    [] layer.asset = "PointLight" -> PointLightCase(f, layer)
    [] layer.asset = "HemisphereLight" -> HemisphereLightCase(f, layer)
    [] layer.asset = "Object3D" -> Object3DCase(f, layer)
    [] layer.asset = "LinePath" -> LinePathCase(f, layer)
    [] layer.asset = "Geometry" -> GeometryCase(f, layerId)
    [] OTHER -> AssetCase(f, layer)

TypeCase(f, object, layerId) == TypeOf(f, object, layerId, f.w.defs[layerId])

\* obj3d.children[ nc ], undefined when there is no such child
ChildAt(os, o, i) == IF i <= Len(os[o].children) THEN os[o].children[i] ELSE NoObj

\* this.linkObjects( addedTemplates, obj3d.children[ nc ], !!options.skipProps );
\* r is what this.populateObject( obj3d, [ td ], options ) returned
AddedTemplates(f, nc, r) ==
  IF r.w.thrown THEN [f EXCEPT !.w = r.w]
  ELSE [f EXCEPT !.w = linkObjects(r.w, r.objs, ChildAt(r.w.objects, f.obj3d, nc + 1),
                                   f.options.skipProps),
                 !.objectsCreated = @ \o r.objs]

\* one entry of layer.containsTemplates, td being its template (0: none)
ContainedTemplate(f, td) ==
  IF td = 0 THEN f
  ELSE AddedTemplates(f, Len(f.w.objects[f.obj3d].children),
                      populateObject(f.w, f.obj3d, <<td>>, f.options))

\* add templates for editor: the entries of layer.containsTemplates from ti on
ContainsTemplates(f, names, ti) ==
  IF ti > Len(names) \/ f.w.thrown THEN f
  ELSE ContainsTemplates(ContainedTemplate(f, TemplateOf(f.options, names[ti])),
                         names, ti + 1)

\* if ( layer.isTemplate ) obj3d.isTemplate = layer.isTemplate
MarkTemplate(f, layer) ==
  IF layer.isTemplate THEN [f EXCEPT !.w.objects[f.obj3d].isTemplate = TRUE] ELSE f

\* if ( layer.containsTemplates && options.templates ) ...
EditorTemplates(f, layer) ==
  IF f.options.templates # {} THEN ContainsTemplates(f, layer.containsTemplates, 1) ELSE f

\* if ( !obj3d.isInstance && !obj3d.parentInstance() ) { ... }
TemplatesPart(f, layerId) ==
  IF f.w.thrown \/ f.w.objects[f.obj3d].isInstance THEN f
  ELSE IF parentInstance(f.w.objects, f.obj3d) = Overflow THEN Throw(f)
  ELSE IF parentInstance(f.w.objects, f.obj3d) # NoObj THEN f
  ELSE EditorTemplates(MarkTemplate(f, f.w.defs[layerId]), f.w.defs[layerId])

\* the objects of the children put in front of objectsCreated
ConcatFront(f, r) == [f EXCEPT !.w = r.w, !.objectsCreated = r.objs \o @]

\* objectsCreated = objectsCreated.concat( r.objs ), in the world the call left
Concat(f, r) == [f EXCEPT !.w = r.w, !.objectsCreated = @ \o r.objs]

\* recursively process children
ChildrenPart(f, layerId) ==
  IF f.w.thrown \/ Len(f.w.defs[layerId].layers) = 0 THEN f
  ELSE Concat(f, populateObject(f.w, f.obj3d, f.w.defs[layerId].layers, f.options))

\* what the callback initObject did in world w, noted in the history
Initialized(f, layerId, w) ==
  [f EXCEPT !.w = [w EXCEPT !.inits = Append(@, <<layerId, f.obj3d>>)]]

\* the call of initObject noted in the history
InitNoted(f, object, layerId) == Noted(f, "initObject", layerId, Ready(f, object))

\* options.initObject( obj3d, layer ), cb being what the callback does
InitObject(f, layerId, cb) ==
  CASE cb.kind = "upcycle" -> Initialized(f, layerId, upcycle(f.w, cb.key))
    [] cb.kind = "recycle" -> Initialized(f, layerId, recycle(f.w, cb.scrap))
    [] cb.kind = "populate" ->
         Initialized(f, layerId, populateObject(f.w, f.obj3d, cb.layers, NoOptions).w)
    [] OTHER -> Initialized(f, layerId, f.w)

\* if ( options.initObject ) options.initObject( obj3d, layer )
InitPart(f, object, layerId) ==
  IF f.w.thrown \/ layerId \notin DOMAIN f.options.initObject THEN f
  ELSE InitObject(InitNoted(f, object, layerId), layerId, f.options.initObject[layerId])

\* the iteration with the callback initObject called before the children
\* are populated
InitBeforeChildren(f, object, layerId) ==
  IF MakeObjectSkips(f.options, layerId) THEN Called(f, layerId)
  ELSE ChildrenPart(
         InitPart(
           TemplatesPart(
             Listed(Spliced(Finalize(TypeCase(Acquired(Acquire(f, layerId), layerId),
                                              object, layerId),
                                     object, layerId)),
                    layerId),
             layerId),
           object, layerId),
         layerId)

\* one iteration of the loop of populateObject
PopulateLayer(f, object, layerId) ==
  IF MakeObjectSkips(f.options, layerId) THEN Called(f, layerId)
  ELSE InitPart(
         ChildrenPart(
           TemplatesPart(
             Listed(Spliced(Finalize(TypeCase(Acquired(Acquire(f, layerId), layerId),
                                              object, layerId),
                                     object, layerId)),
                    layerId),
             layerId),
           layerId),
         object, layerId)

PopulateFrom(f, object, layers, i) ==
  IF i > Len(layers) \/ f.w.thrown THEN f
  ELSE PopulateFrom(PopulateLayer(f, object, layers[i]), object, layers, i + 1)

\* return objectsCreated; the call leaves the stack
Result(f) == [w |-> [f.w EXCEPT !.depth = @ - 1], objs |-> f.objectsCreated]

\* the call enters the stack
Entered(w) == [w EXCEPT !.depth = @ + 1]

\* THREE.PixelBoxScene.prototype.populateObject( object, layers, options ): [w, objs];
\* a call that the stack has no room for is a RangeError
populateObject(w, object, layers, options) ==
  IF w.depth >= MaxDepth THEN [w |-> [w EXCEPT !.thrown = TRUE], objs |-> <<>>]
  ELSE Result(PopulateFrom(Frame(Entered(w), options, <<>>), object, layers, 1))

\* ---------------------------------------------------------------- populateWith
\* the list this.placeHolderLights holds
Lights(w) == CHOOSE l \in w.placeHolderLights : TRUE

\* new THREE.DirectionalLight( 0x0, 1 ) first, then new THREE.SpotLight( 0x0, 1 )
PlaceHolderClass(lights) ==
  IF Len(lights) > 0 THEN "SpotLight" ELSE "DirectionalLight"

\* this.add( light ); this.placeHolderLights.push( light ), light being w.val
PushLight(w) ==
  [w EXCEPT !.objects = Add(@, SceneObj, w.val),
            !.placeHolderLights = {Append(Lights(w), w.val)}]

RECURSIVE PlaceHolders(_, _)
\* while ( maxShadows ) { ... maxShadows--; }
PlaceHolders(w, maxShadows) ==
  IF maxShadows = 0 THEN w
  ELSE PlaceHolders(PushLight(Construct(w, [BlankObject(PlaceHolderClass(Lights(w)))
                                              EXCEPT !.castShadow = TRUE])),
                    maxShadows - 1)

\* the shadow-casting directional and spot lights of addedObjects
NumShadows(os, addedObjects) ==
  Cardinality({i \in 1..Len(addedObjects) :
                 /\ os[addedObjects[i]].cls \in {"DirectionalLight", "SpotLight"}
                 /\ os[addedObjects[i]].castShadow})

\* a - b when positive, else 0
Monus(a, b) == IF a - b > 0 THEN a - b ELSE 0

\* the budget with the lights of the scene left out of the count
BudgetOfAll(sceneDef, numShadows) ==
  IF sceneDef.maxShadows = {} THEN 0 ELSE CHOOSE m \in sceneDef.maxShadows : TRUE

\* Math.max( 0, sceneDef.maxShadows - numShadows ); NaN ends the loop at once
ShadowBudget(sceneDef, numShadows) ==
  IF sceneDef.maxShadows = {} THEN 0
  ELSE Monus(CHOOSE m \in sceneDef.maxShadows : TRUE, numShadows)

\* an entry of sceneDef.assets: the asset's name and anchors, and how it is
\* delivered: "" (an object), or as text that decodes ("ok"), that
\* LZString cannot decompress ("undecodable"), or that decompresses into
\* what JSON.parse rejects ("unparsable")
AssetPayload(name, anchors, text) == [name |-> name, anchors |-> anchors, text |-> text]

\* asset.name of a string: undefined, which as a key of the cache is 'undefined'
NameOfString == "undefined"

\* if ( assets.get( name ) ) continue; assets.add( name, asset )
AssetAdded(cache, name, asset) ==
  IF name \in DOMAIN cache THEN cache ELSE MapPut(cache, name, asset)

\* one entry of sceneDef.assets: text that does not decompress is passed
\* over; text that does not parse is logged and stays the string it was
AddAsset(cache, payload) ==
  IF payload.text = "undecodable" THEN cache
  ELSE IF payload.text = "unparsable"
       THEN AssetAdded(cache, NameOfString, [anchors |-> <<>>, includedWithScene |-> FALSE])
  ELSE AssetAdded(cache, payload.name,
                  [anchors |-> payload.anchors, includedWithScene |-> TRUE])

RECURSIVE AddAssets(_, _, _)
\* add assets to cache if needed: one already loaded is kept
AddAssets(cache, list, i) ==
  IF i > Len(list) THEN cache
  ELSE AddAssets(AddAsset(cache, list[i]), list, i + 1)

\* the asset cache and this.templates = options.templates = sceneDef.templates
Cached(w, sceneDef) ==
  [w EXCEPT !.assets = AddAssets(@, sceneDef.assets, 1), !.templates = sceneDef.templates]

\* this.placeHolderLights = []; the placeholders; this.linkObjects( addedObjects, this );
\* r is what this.populateObject( this, sceneDef.layers, options ) returned
Populated(sceneDef, r) ==
  IF r.w.thrown THEN r
  ELSE [w |-> linkObjects(PlaceHolders([r.w EXCEPT !.placeHolderLights = {<<>>}],
                                       ShadowBudget(sceneDef,
                                                    NumShadows(r.w.objects, r.objs))),
                          r.objs, SceneObj, FALSE),
        objs |-> r.objs]

\* THREE.PixelBoxScene.prototype.populateWith( sceneDef, options ): the world
\* it leaves and its addedObjects
populateWith(w, sceneDef, options) ==
  Populated(sceneDef,
            populateObject(Cached(w, sceneDef), SceneObj, sceneDef.layers,
                           [options EXCEPT !.templates = sceneDef.templates]))

\* ---------------------------------------------------------------- instantiate
\* what instantiate leaves: the world, the list populateObject returned and
\* the returned object, NoObj for null and for undefined
Outcome(w, objs, obj) == [w |-> w, objs |-> objs, obj |-> obj]

\* if ( objs.length ) { var obj = objs[ 0 ]; this.linkObjects( objs, obj ); return obj; }
\* return null; r is what this.populateObject( null, [ def ], options ) returned
Instantiated(r) ==
  IF r.w.thrown \/ Len(r.objs) = 0 THEN Outcome(r.w, r.objs, NoObj)
  ELSE Outcome(linkObjects(r.w, r.objs, r.objs[1], FALSE), r.objs, r.objs[1])

\* THREE.PixelBoxScene.prototype.instantiate( templateName, options ):
\* this.templates[ templateName ] is a TypeError while this.templates is
\* undefined; a name that is not in the map returns undefined
instantiate(w, templateName, options) ==
  IF w.templates = {} THEN Outcome([w EXCEPT !.thrown = TRUE], <<>>, NoObj)
  ELSE IF TemplateOf([options EXCEPT !.templates = w.templates], templateName) = 0
       THEN Outcome(w, <<>>, NoObj)
  ELSE Instantiated(populateObject(w, NoObj,
                                   <<TemplateOf([options EXCEPT !.templates = w.templates],
                                                templateName)>>,
                                   [options EXCEPT !.templates = w.templates]))

\* ---------------------------------------------------------------- render, dispose
RECURSIVE RemoveAll(_, _, _, _)
\* this.remove( list[ i ] ) for each entry of list
RemoveAll(os, p, list, i) ==
  IF i > Len(list) THEN os ELSE RemoveAll(Remove(os, p, list[i]), p, list, i + 1)

\* this.placeHolderLights = null; this.updateLights = true
Forgotten(w) ==
  IF w.thrown THEN w ELSE [w EXCEPT !.placeHolderLights = {}, !.updateLights = TRUE]

\* remove maxShadows placeholders
RemovePlaceHolders(w, lights) ==
  Forgotten(recycle([w EXCEPT !.objects = RemoveAll(@, SceneObj, lights, 1)], lights))

\* this.updateLights = false; this.updateMaterials = false
FlagsCleared(w) ==
  IF w.thrown THEN w ELSE [w EXCEPT !.updateLights = FALSE, !.updateMaterials = FALSE]

\* THREE.PixelBoxScene.prototype.render: the placeholder lights are removed
\* and recycled once, then the lights / materials flags are cleared
render(w) ==
  FlagsCleared(IF w.placeHolderLights = {} THEN w ELSE RemovePlaceHolders(w, Lights(w)))

\* clear object pool; clean up assets that were loaded with this scene
Cleared(w, unloadAssets) ==
  IF w.thrown THEN w
  ELSE [w EXCEPT !.objectPool = EmptyMap, !.pending = <<>>,
                 !.disposed = @ \cup PooledIn(w.objectPool),
                 !.assets = [n \in {m \in DOMAIN w.assets :
                                      ~(unloadAssets /\ w.assets[m].includedWithScene)}
                               |-> w.assets[n]]]

\* THREE.PixelBoxScene.prototype.dispose( unloadAssets )
dispose(w, unloadAssets) == Cleared(recycle(w, w.objects[SceneObj].children), unloadAssets)

\* ---------------------------------------------------------------- callers' inputs
S(c) == <<c>>

\* a scene definition with every field absent
NoSceneDef == [assets |-> <<>>, templates |-> {}, layers |-> <<>>, maxShadows |-> {}]

\* a call and its arguments, as lastOp records it
Op(name) ==
  [op |-> name, object |-> NoObj, layers |-> <<>>, options |-> NoOptions,
   scrap |-> <<>>, key |-> "", top |-> NoObj, sceneDef |-> NoSceneDef]

\* ret: the list a call returned (populateWith: its addedObjects), the object
\* it returned, the objects it constructed, and its history w.inits, w.trace, w.order
NoReturn ==
  [objs |-> <<>>, obj |-> NoObj, fresh |-> {}, inits |-> <<>>, trace |-> <<>>, order |-> <<>>]
NoTrip == [phase |-> 0, object |-> NoObj, layers |-> <<>>, options |-> NoOptions,
           first |-> <<>>]

RECURSIVE AncestorIn(_, _, _, _)
\* whether one of the first fuel + 1 ancestors of o is in set
AncestorIn(os, o, set, fuel) ==
  /\ os[o].parent # NoObj
  /\ \/ os[o].parent \in set
     \/ (fuel > 0 /\ AncestorIn(os, os[o].parent, set, fuel - 1))

\* the objects of a populateObject result that none of the others contains
Roots(os, objs) == SelectSeq(objs, LAMBDA o : ~AncestorIn(os, o, SeqSet(objs), Len(os)))

StandardTags == {"Camera", "OrthographicCamera", "DirectionalLight", "SpotLight", "PointLight",
                 "HemisphereLight", "Object3D", "LinePath", "Geometry"}

RECURSIVE PlainTree(_, _)
\* a LayerDef tree with no Instance and no asset-lookup node
PlainTree(ds, layers) ==
  \A i \in 1..Len(layers) :
    /\ ds[layers[i]].asset \in StandardTags
    /\ ds[layers[i]].containsTemplates = <<>>
    /\ PlainTree(ds, ds[layers[i]].layers)

\* the round-trip history after a call op that returned r in world w:
\* phase 1 after a populateObject of a plain tree, 2 after the recycle of the
\* roots it returned, 3 after the same populateObject again
NextTrip(op, w, r) ==
  IF op.op = "populateObject" /\ ~w.thrown /\ PlainTree(defs, op.layers) /\ Len(r.objs) > 0
  THEN IF trip.phase = 2 /\ trip.object = op.object /\ trip.layers = op.layers
                         /\ trip.options = op.options
       THEN [trip EXCEPT !.phase = 3]
       ELSE [phase |-> 1, object |-> op.object, layers |-> op.layers,
             options |-> op.options, first |-> r.objs]
  ELSE IF op.op = "recycle" /\ trip.phase = 1 /\ ~w.thrown
          /\ op.scrap = Roots(objects, trip.first)
       THEN [trip EXCEPT !.phase = 2]
  ELSE NoTrip

\* the state after a call op that left world w and returned r
Commit(w, r, op) ==
  /\ calls < MaxCalls
  /\ Len(w.objects) <= MaxObj
  /\ calls' = calls + 1
  /\ objects' = w.objects
  /\ defs' = w.defs
  /\ assets' = w.assets
  /\ objectPool' = w.objectPool
  /\ camera' = w.camera
  /\ updateLights' = w.updateLights
  /\ updateMaterials' = w.updateMaterials
  /\ placeHolderLights' = w.placeHolderLights
  /\ templates' = w.templates
  /\ thrown' = w.thrown
  /\ pending' = w.pending
  /\ ret' = [r EXCEPT !.inits = w.inits, !.trace = w.trace, !.order = w.order]
  /\ lastOp' = op
  /\ trip' = NextTrip(op, w, r)
  /\ disposed' = w.disposed

\* the scene after its constructor, the caller's LayerDefs and the asset cache
InitWith(catalogue, cache) ==
  /\ objects = << [BlankObject("Scene") EXCEPT !.children = <<2, 3>>],
                  [BlankObject("AmbientLight") EXCEPT !.parent = SceneObj],
                  [BlankObject("PerspectiveCamera") EXCEPT !.parent = SceneObj,
                                                            !.name = CameraName,
                                                            !.position = Vec(70, 70, 70)] >>
  /\ defs = catalogue
  /\ assets = cache
  /\ objectPool = EmptyMap
  /\ camera = 3
  /\ updateLights = TRUE
  /\ updateMaterials = TRUE
  /\ placeHolderLights = {}
  /\ templates = {}
  /\ ret = NoReturn
  /\ thrown = FALSE
  /\ pending = <<>>
  /\ lastOp = Op("constructor")
  /\ trip = NoTrip
  /\ disposed = {}
  /\ calls = 0

\* ---------------------------------------------------------------- actions
\* a populating call that left r = [w, objs]
Populate(r, op) ==
  Commit(r.w, [NoReturn EXCEPT !.objs = r.objs, !.fresh = r.w.fresh], op)

PopulateObject(object, layers, options) ==
  Populate(populateObject(World, object, layers, options),
           [Op("populateObject") EXCEPT !.object = object, !.layers = layers,
                                        !.options = options])

PopulateWith(sceneDef, options) ==
  Populate(populateWith(World, sceneDef, options),
           [Op("populateWith") EXCEPT !.sceneDef = sceneDef, !.options = options])

LinkObjects(objs, top, skipProps) ==
  Commit(linkObjects(World, objs, top, skipProps), [NoReturn EXCEPT !.objs = objs],
         [Op("linkObjects") EXCEPT !.top = top, !.options.skipProps = skipProps])

Recycle(scrap) ==
  Commit(recycle(World, scrap), NoReturn, [Op("recycle") EXCEPT !.scrap = scrap])

\* an upcycle call that left world w
Upcycled(w, objType) ==
  Commit(w, [NoReturn EXCEPT !.obj = w.val], [Op("upcycle") EXCEPT !.key = objType])

Upcycle(objType) == Upcycled(upcycle(World, objType), objType)

\* an instantiate call that left r = [w, objs, obj]
Instanced(r, op) ==
  Commit(r.w, [NoReturn EXCEPT !.objs = r.objs, !.obj = r.obj, !.fresh = r.w.fresh], op)

Instantiate(templateName, options) ==
  Instanced(instantiate(World, templateName, options),
            [Op("instantiate") EXCEPT !.key = templateName, !.options = options])

Render == Commit(render(World), NoReturn, Op("render"))

Dispose(unloadAssets) == Commit(dispose(World, unloadAssets), NoReturn, Op("dispose"))

\* ---------------------------------------------------------------- Spec: containers and cameras
\* what a caller passes to recycle: a populated object of the live hierarchy,
\* the list the last call returned, or the roots of that list
Scraps ==
  {<<o>> : o \in {x \in 1..Len(objects) : objects[x].def # NoDef /\ objects[x].parent # NoObj}}
    \cup {l \in {ret.objs, Roots(objects, ret.objs)} : Len(l) > 0}

\* LayerDefs 1..3: a container p with one child c, and an orthographic camera
PoolLayers ==
  << [LayerDef("Object3D") EXCEPT !.name = S("p"), !.layers = <<2>>],
     [LayerDef("Object3D") EXCEPT !.name = S("c")],
     [LayerDef("OrthographicCamera") EXCEPT !.name = S("o")] >>

\* the options the editor populates with
InEditor == [NoOptions EXCEPT !.keepSceneCamera = TRUE]

Init == InitWith(PoolLayers, EmptyMap)

Next ==
  \/ \E layers \in {<<1>>, <<3>>} : PopulateObject(SceneObj, layers, NoOptions)
  \/ PopulateObject(SceneObj, <<3>>, InEditor)
  \/ \E scrap \in Scraps : Recycle(scrap)
  \/ \E objType \in {"Object3D", "OrthographicCamera"} : Upcycle(objType)
  \/ (Len(ret.objs) > 0 /\ LinkObjects(ret.objs, SceneObj, FALSE))
  \/ Render
  \/ Dispose(FALSE)

Spec == Init /\ [][Next]_vars

\* ---------------------------------------------------------------- SpecLink: anchors, lights and references
\* the asset cache: one PixelBox asset, 'box', with the anchor 'a'
LinkAssets == [box |-> [anchors |-> <<S("a")>>, includedWithScene |-> FALSE]]

\* LayerDefs 1..5: the box b with a sphere x below it; a directional light
\* aimed at a point; one aimed at a path that names nothing; a spot light
\* aimed at the anchor a of b, with a property that refers to x
LinkLayers ==
  << [LayerDef("box") EXCEPT !.name = S("b"), !.layers = <<2>>],
     [LayerDef("Geometry") EXCEPT !.name = S("x"), !.mesh = "Sphere"],
     [LayerDef("DirectionalLight") EXCEPT !.target = TargetArray(Vec(1, 2, 3))],
     [LayerDef("DirectionalLight") EXCEPT !.target = TargetString(<<"#", "n">>)],
     [LayerDef("SpotLight") EXCEPT !.target = TargetString(<<"#", "b", ".", "$", "a">>),
                                   !.props = [q |-> PropString(<<"#", "b", ".", "x">>),
                                              n |-> PropValue(7)]] >>

\* what a caller recycles here: one populated object of the live hierarchy,
\* or the roots of the list the last call returned
LinkScraps ==
  {<<o>> : o \in {x \in 1..Len(objects) : objects[x].def # NoDef /\ objects[x].parent # NoObj}}
    \cup {l \in {Roots(objects, ret.objs)} : Len(l) > 0}

InitLink == InitWith(LinkLayers, LinkAssets)

NextLink ==
  \/ \E layer \in 1..Len(LinkLayers) : PopulateObject(SceneObj, <<layer>>, NoOptions)
  \/ \E skipProps \in BOOLEAN :
       (Len(ret.objs) > 0 /\ LinkObjects(ret.objs, SceneObj, skipProps))
  \/ \E scrap \in LinkScraps : Recycle(scrap)

SpecLink == InitLink /\ [][NextLink]_vars

\* ---------------------------------------------------------------- SpecInst: templates and instances
\* LayerDefs 1..7: a container p with the child c; an Instance i of template
\* T; an Instance j of T with a layer of its own; the root t of template T
\* with its child u, which refers to itself by path; an editor container e
\* that contains template T
InstLayers ==
  << [LayerDef("Object3D") EXCEPT !.name = S("p"), !.layers = <<2>>],
     [LayerDef("Object3D") EXCEPT !.name = S("c")],
     [LayerDef("Instance") EXCEPT !.name = S("i"), !.template = "T"],
     [LayerDef("Instance") EXCEPT !.name = S("j"), !.template = "T", !.layers = <<2>>,
                                  !.position = {Vec(4, 5, 6)}],
     [LayerDef("Object3D") EXCEPT !.name = S("t"), !.isTemplate = TRUE, !.layers = <<6>>,
                                  !.position = {Vec(1, 2, 3)}, !.visible = {FALSE},
                                  !.castShadow = {FALSE}],
     [LayerDef("Object3D") EXCEPT !.name = S("u"),
                                  !.props = [r |-> PropString(<<"#", "u">>)]],
     [LayerDef("Object3D") EXCEPT !.name = S("e"), !.containsTemplates = <<"T">>] >>

\* the template map the caller passes
InstTemplates == [T |-> 5]

\* the options of the two instancing modes
Unwrap == [NoOptions EXCEPT !.templates = {InstTemplates}]
Wrap == [NoOptions EXCEPT !.templates = {InstTemplates}, !.wrapTemplates = TRUE]

InitInst == InitWith(InstLayers, EmptyMap)

NextInst ==
  \/ \E layer \in {1, 3, 4, 7} : \E options \in {Unwrap, Wrap} :
       PopulateObject(SceneObj, <<layer>>, options)
  \/ \E scrap \in LinkScraps : Recycle(scrap)

SpecInst == InitInst /\ [][NextInst]_vars

\* ---------------------------------------------------------------- SpecShadow: scene definitions and shadow budgets
\* LayerDefs 1..3: a directional light that casts shadows, a spot light that
\* does not say, a point light that casts shadows
ShadowLayers ==
  << [LayerDef("DirectionalLight") EXCEPT !.name = S("d"), !.castShadow = {TRUE}],
     [LayerDef("SpotLight") EXCEPT !.name = S("s")],
     [LayerDef("PointLight") EXCEPT !.castShadow = {TRUE}] >>

\* the scene definitions a caller populates with: maxShadows absent, 1 or 3
SceneDefs ==
  {[NoSceneDef EXCEPT !.layers = layers, !.maxShadows = maxShadows] :
     layers \in {<<>>, <<1, 2>>, <<3>>}, maxShadows \in {{}, {1}, {3}}}

InitShadow == InitWith(ShadowLayers, EmptyMap)

NextShadow ==
  \/ \E sceneDef \in SceneDefs : PopulateWith(sceneDef, NoOptions)
  \/ Render
  \/ \E unloadAssets \in BOOLEAN : Dispose(unloadAssets)

SpecShadow == InitShadow /\ [][NextShadow]_vars


\* ---------------------------------------------------------------- SpecScope: references inside and outside a template
\* LayerDefs 1..6: an editor container e that contains template T; the root
\* t of T with its children x and l, a spot light aimed at '#x' with a
\* property that refers to '#x'; an object x and a light m of the same
\* shape directly below the scene
ScopeLayers ==
  << [LayerDef("Object3D") EXCEPT !.name = S("e"), !.containsTemplates = <<"T">>],
     [LayerDef("Object3D") EXCEPT !.name = S("t"), !.isTemplate = TRUE, !.layers = <<3, 4>>],
     [LayerDef("Object3D") EXCEPT !.name = S("x")],
     [LayerDef("SpotLight") EXCEPT !.name = S("l"),
                                   !.target = TargetString(<<"#", "x">>),
                                   !.props = [q |-> PropString(<<"#", "x">>),
                                              n |-> PropValue(7)]],
     [LayerDef("Object3D") EXCEPT !.name = S("x")],
     [LayerDef("SpotLight") EXCEPT !.name = S("m"),
                                   !.target = TargetString(<<"#", "x">>),
                                   !.props = [q |-> PropString(<<"#", "x">>)]] >>

\* the options of the editor: the templates of the scene
ScopeOptions == [NoOptions EXCEPT !.templates = {[T |-> 2]}]

\* the objects a caller passes as top: the scene, or the first object the
\* last call returned
ScopeTops == {SceneObj} \cup {ret.objs[i] : i \in {j \in 1..Len(ret.objs) : j = 1}}

InitScope == InitWith(ScopeLayers, EmptyMap)

NextScope ==
  \/ \E layer \in {1, 5, 6} : PopulateObject(SceneObj, <<layer>>, ScopeOptions)
  \/ \E top \in ScopeTops : \E skipProps \in BOOLEAN :
       (Len(ret.objs) > 0 /\ LinkObjects(ret.objs, top, skipProps))
  \/ \E scrap \in LinkScraps : Recycle(scrap)

SpecScope == InitScope /\ [][NextScope]_vars

\* ---------------------------------------------------------------- SpecMake: the callbacks makeObject and initObject
\* LayerDefs 1..6: a container p with the child c; an Instance i of template
\* T; the root t of T with its child u; a point light
MakeLayers ==
  << [LayerDef("Object3D") EXCEPT !.name = S("p"), !.layers = <<2>>],
     [LayerDef("Object3D") EXCEPT !.name = S("c")],
     [LayerDef("Instance") EXCEPT !.name = S("i"), !.template = "T"],
     [LayerDef("Object3D") EXCEPT !.name = S("t"), !.isTemplate = TRUE, !.layers = <<5>>],
     [LayerDef("Object3D") EXCEPT !.name = S("u")],
     [LayerDef("PointLight") EXCEPT !.name = S("g")] >>

\* an initObject that only takes note of its calls, for every LayerDef
NotesAll == [k \in 1..Len(MakeLayers) |-> Callback("none")]

\* the options a caller passes: the templates, an initObject for every
\* LayerDef, and a makeObject that skips LayerDef skip (0: none) and returns
\* an object of its own for LayerDef own (0: none)
MakeOptions(skip, own, wrap) ==
  [NoOptions EXCEPT
     !.templates = {[T |-> 4]},
     !.wrapTemplates = wrap,
     !.initObject = NotesAll,
     !.makeObject = [k \in {skip, own} \ {0} |->
                       IF k = skip THEN Callback("skip")
                       ELSE [Callback("object") EXCEPT !.cls = "Object3D"]]]

InitMake == InitWith(MakeLayers, EmptyMap)

\* the calls a caller makes: the layers, and what makeObject skips and overrides
MakeCalls ==
  { [layers |-> <<1, 6>>, skip |-> 1, own |-> 6, wrap |-> FALSE],
    [layers |-> <<1, 6>>, skip |-> 0, own |-> 2, wrap |-> FALSE],
    [layers |-> <<3>>, skip |-> 0, own |-> 0, wrap |-> FALSE],
    [layers |-> <<3>>, skip |-> 5, own |-> 0, wrap |-> TRUE],
    [layers |-> <<3>>, skip |-> 4, own |-> 0, wrap |-> FALSE],
    [layers |-> <<3>>, skip |-> 4, own |-> 0, wrap |-> TRUE] }

NextMake ==
  \/ \E c \in MakeCalls :
       PopulateObject(SceneObj, c.layers, MakeOptions(c.skip, c.own, c.wrap))
  \/ \E scrap \in LinkScraps : Recycle(scrap)

SpecMake == InitMake /\ [][NextMake]_vars

\* ---------------------------------------------------------------- SpecMissing: templates and assets that are not there
\* LayerDefs 1..4: an Instance i of a template M that no one defines and a
\* sprite g of an asset 'ghost' that is not loaded, each with the child c;
\* the child c; a sprite b of the loaded asset 'box'
MissingLayers ==
  << [LayerDef("Instance") EXCEPT !.name = S("i"), !.template = "M", !.layers = <<3>>],
     [LayerDef("ghost") EXCEPT !.name = S("g"), !.layers = <<3>>],
     [LayerDef("Object3D") EXCEPT !.name = S("c")],
     [LayerDef("box") EXCEPT !.name = S("b")] >>

\* the options a caller passes: no templates at all, or templates without M
MissingOptions == {NoOptions, [NoOptions EXCEPT !.templates = {[T |-> 3]}]}

InitMissing == InitWith(MissingLayers, LinkAssets)

NextMissing ==
  \/ \E layers \in {<<1, 2>>, <<2, 4>>, <<1>>} : \E options \in MissingOptions :
       PopulateObject(SceneObj, layers, options)
  \/ \E scrap \in LinkScraps : Recycle(scrap)

SpecMissing == InitMissing /\ [][NextMissing]_vars

\* ---------------------------------------------------------------- SpecAssets: the assets a scene definition embeds
\* LayerDefs 1..2: a sprite of the asset 'box', which is loaded, and one of
\* the asset 'pod', which the scene definition embeds
AssetLayers ==
  << [LayerDef("box") EXCEPT !.name = S("b")],
     [LayerDef("pod") EXCEPT !.name = S("p")] >>

\* the lists of embedded assets: 'pod' as an object or as text that decodes,
\* does not decompress or does not parse, alone or before an asset 'box'
\* that would replace the loaded one
AssetLists ==
  {<<AssetPayload("pod", <<>>, text)>> : text \in {"", "ok", "undecodable", "unparsable"}}
    \cup {<<AssetPayload("pod", <<>>, text), AssetPayload("box", <<S("z")>>, "ok")>> :
            text \in {"undecodable", "unparsable"}}

\* the scene definitions a caller populates with
AssetSceneDefs ==
  {[NoSceneDef EXCEPT !.assets = list, !.layers = layers] :
     list \in AssetLists, layers \in {<<1>>, <<2>>}}

InitAssets == InitWith(AssetLayers, LinkAssets)

NextAssets ==
  \/ \E sceneDef \in AssetSceneDefs : PopulateWith(sceneDef, NoOptions)
  \/ \E unloadAssets \in BOOLEAN : Dispose(unloadAssets)

SpecAssets == InitAssets /\ [][NextAssets]_vars

\* ---------------------------------------------------------------- SpecReenter: callbacks that call back into the scene
\* LayerDefs 1..3: a container p with the child c, and a container n that a
\* callback populates
ReenterLayers ==
  << [LayerDef("Object3D") EXCEPT !.name = S("p"), !.layers = <<2>>],
     [LayerDef("Object3D") EXCEPT !.name = S("c")],
     [LayerDef("Object3D") EXCEPT !.name = S("n")] >>

\* what a caller recycles, itself or from a callback: one populated object
\* of the live hierarchy, with what is below it
LiveScraps ==
  {<<o>> : o \in {x \in 1..Len(objects) : objects[x].def # NoDef /\ objects[x].parent # NoObj}}

\* the callbacks that call back into the scene: upcycle, recycle of the
\* given scrap, populateObject of LayerDef 3 below the object at hand
Reentries(scrap) ==
  { [Callback("upcycle") EXCEPT !.key = "Object3D"],
    [Callback("recycle") EXCEPT !.scrap = scrap],
    [Callback("populate") EXCEPT !.layers = <<3>>] }

\* the options a caller passes: one callback, called for LayerDef k
ReenterOptions(scrap, k) ==
  {[NoOptions EXCEPT !.makeObject = [j \in {k} |-> cb]] :
     cb \in {c \in Reentries(scrap) : c.kind # "populate"}}
    \cup {[NoOptions EXCEPT !.initObject = [j \in {k} |-> cb]] : cb \in Reentries(scrap)}

InitReenter == InitWith(ReenterLayers, EmptyMap)

NextReenter ==
  \/ PopulateObject(SceneObj, <<1>>, NoOptions)
  \/ \E scrap \in LiveScraps : \E k \in {1, 2} : \E options \in ReenterOptions(scrap, k) :
       PopulateObject(SceneObj, <<1>>, options)
  \/ \E scrap \in LiveScraps : Recycle(scrap)
  \/ Upcycle("Object3D")

SpecReenter == InitReenter /\ [][NextReenter]_vars

\* ---------------------------------------------------------------- SpecCamera: default cameras
\* LayerDefs 1..4: a default perspective camera k, a default orthographic
\* camera o, a perspective camera v that is not the default, a container p
CameraLayers ==
  << [LayerDef("Camera") EXCEPT !.name = S("k"), !.isDefault = TRUE],
     [LayerDef("OrthographicCamera") EXCEPT !.name = S("o"), !.isDefault = TRUE],
     [LayerDef("Camera") EXCEPT !.name = S("v")],
     [LayerDef("Object3D") EXCEPT !.name = S("p")] >>

InitCamera == InitWith(CameraLayers, EmptyMap)

NextCamera ==
  \/ \E k \in 1..4 : \E options \in {NoOptions, InEditor} :
       PopulateObject(SceneObj, <<k>>, options)
  \/ \E scrap \in LiveScraps : Recycle(scrap)

SpecCamera == InitCamera /\ [][NextCamera]_vars

\* ---------------------------------------------------------------- SpecGeom: Geometry LayerDefs
\* LayerDefs 1..5: a box g with no widthSegments, a sphere s with fewer
\* segments than a sphere can have, a plane q with two, the template root t
\* holding the box, and an Instance i of the template
GeomLayers ==
  << [LayerDef("Geometry") EXCEPT !.name = S("g"), !.mesh = "Box"],
     [LayerDef("Geometry") EXCEPT !.name = S("s"), !.mesh = "Sphere", !.widthSegments = {1}],
     [LayerDef("Geometry") EXCEPT !.name = S("q"), !.mesh = "Plane", !.widthSegments = {2}],
     [LayerDef("Object3D") EXCEPT !.name = S("t"), !.isTemplate = TRUE, !.layers = <<1>>],
     [LayerDef("Instance") EXCEPT !.name = S("i"), !.template = "T"] >>

\* the scene definitions a caller populates with
GeomSceneDefs ==
  {[NoSceneDef EXCEPT !.templates = {[T |-> 4]}, !.layers = layers] :
     layers \in {<<2>>, <<3>>, <<5>>}}

InitGeom == InitWith(GeomLayers, EmptyMap)

NextGeom ==
  \/ \E k \in 1..3 : PopulateObject(SceneObj, <<k>>, NoOptions)
  \/ \E sceneDef \in GeomSceneDefs : PopulateWith(sceneDef, NoOptions)
  \/ Instantiate("T", NoOptions)
  \/ \E scrap \in LiveScraps : Recycle(scrap)

SpecGeom == InitGeom /\ [][NextGeom]_vars

\* ---------------------------------------------------------------- SpecTemplate: instantiate
\* LayerDefs 1..5: the template root t with the child c and a spot light l
\* aiming at '#c', a container p, and the root u of a second template with
\* the same children, which is not marked as a template
TemplateLayers ==
  << [LayerDef("Object3D") EXCEPT !.name = S("t"), !.isTemplate = TRUE, !.layers = <<2, 3>>],
     [LayerDef("Object3D") EXCEPT !.name = S("c")],
     [LayerDef("SpotLight") EXCEPT !.name = S("l"), !.target = TargetString(<<"#", "c">>)],
     [LayerDef("Object3D") EXCEPT !.name = S("p")],
     [LayerDef("Object3D") EXCEPT !.name = S("u"), !.layers = <<2, 3>>] >>

\* the scene definitions a caller populates with: with the templates T and
\* U, with no templates at all
TemplateSceneDefs ==
  {[NoSceneDef EXCEPT !.templates = ts, !.layers = <<4>>] : ts \in {{}, {[T |-> 1, U |-> 5]}}}

\* the makeObject callback that skips the root of the template T
SkipRoot == [NoOptions EXCEPT !.makeObject = [k \in {1} |-> Callback("skip")]]

InitTemplate == InitWith(TemplateLayers, EmptyMap)

NextTemplate ==
  \/ \E sceneDef \in TemplateSceneDefs : PopulateWith(sceneDef, NoOptions)
  \/ \E templateName \in {"T", "U", "X"} : \E options \in {NoOptions, SkipRoot} :
       Instantiate(templateName, options)
  \/ \E scrap \in LiveScraps \cup {<<o>> : o \in {ret.obj} \ {NoObj}} : Recycle(scrap)

SpecTemplate == InitTemplate /\ [][NextTemplate]_vars

\* ---------------------------------------------------------------- SpecFlags: lights and the update flags
\* LayerDefs 1..3: a container p holding the point light g, and a container c
FlagLayers ==
  << [LayerDef("Object3D") EXCEPT !.name = S("p"), !.layers = <<2>>],
     [LayerDef("PointLight") EXCEPT !.name = S("g")],
     [LayerDef("Object3D") EXCEPT !.name = S("c")] >>

\* what a caller recycles here: a populated object of the live hierarchy, or
\* scene.ambientLight while it is in the scene
FlagScraps ==
  LiveScraps \cup {<<o>> : o \in {x \in {2} : objects[x].parent = SceneObj}}

InitFlags == InitWith(FlagLayers, EmptyMap)

NextFlags ==
  \/ \E layer \in {1, 3} : PopulateObject(SceneObj, <<layer>>, NoOptions)
  \/ (Len(ret.objs) > 0 /\ LinkObjects(ret.objs, SceneObj, FALSE))
  \/ \E scrap \in FlagScraps : Recycle(scrap)
  \/ \E objType \in {"Object3D", "PointLight"} : Upcycle(objType)
  \/ Render

SpecFlags == InitFlags /\ [][NextFlags]_vars

\* ---------------------------------------------------------------- SpecCycle: templates that refer to templates
\* LayerDefs 1..6: a template root t whose child i is an Instance of T; a
\* template root u with the plain child c; an Instance j of U; an editor
\* container e that contains the template E
CycleLayers ==
  << [LayerDef("Object3D") EXCEPT !.name = S("t"), !.isTemplate = TRUE, !.layers = <<2>>],
     [LayerDef("Instance") EXCEPT !.name = S("i"), !.template = "T"],
     [LayerDef("Object3D") EXCEPT !.name = S("u"), !.isTemplate = TRUE, !.layers = <<4>>],
     [LayerDef("Object3D") EXCEPT !.name = S("c")],
     [LayerDef("Instance") EXCEPT !.name = S("j"), !.template = "U"],
     [LayerDef("Object3D") EXCEPT !.name = S("e"), !.containsTemplates = <<"E">>] >>

\* the templates maps a caller passes: T over the root u, which holds no
\* Instance; T over the root t, which holds an Instance of T; E over the
\* container that contains E
CycleTemplates ==
  { [T |-> 3, U |-> 3, E |-> 3], [T |-> 1, U |-> 3, E |-> 3], [T |-> 3, U |-> 3, E |-> 6] }

InitCycle == InitWith(CycleLayers, EmptyMap)

NextCycle ==
  \/ \E layer \in {2, 5, 6} : \E ts \in CycleTemplates : \E wrap \in BOOLEAN :
       PopulateObject(SceneObj, <<layer>>,
                      [NoOptions EXCEPT !.templates = {ts}, !.wrapTemplates = wrap])
  \/ \E scrap \in LiveScraps : Recycle(scrap)

SpecCycle == InitCycle /\ [][NextCycle]_vars

\* ---------------------------------------------------------------- SpecOrder: the order of the callbacks
\* LayerDefs 1..5: a container a holding b and c, b holding d, and a
\* container s
OrderLayers ==
  << [LayerDef("Object3D") EXCEPT !.name = S("a"), !.layers = <<2, 3>>],
     [LayerDef("Object3D") EXCEPT !.name = S("b"), !.layers = <<4>>],
     [LayerDef("Object3D") EXCEPT !.name = S("c")],
     [LayerDef("Object3D") EXCEPT !.name = S("d")],
     [LayerDef("Object3D") EXCEPT !.name = S("s")] >>

\* the options a caller passes: an initObject and a makeObject that are
\* called for every LayerDef, makeObject returning -1 for skip (0: for none)
OrderOptions(skip) ==
  [NoOptions EXCEPT
     !.initObject = [k \in 1..Len(OrderLayers) |-> Callback("none")],
     !.makeObject = [k \in 1..Len(OrderLayers) |->
                       IF k = skip THEN Callback("skip") ELSE Callback("none")]]

InitOrder == InitWith(OrderLayers, EmptyMap)

NextOrder ==
  \/ \E layers \in {<<1, 5>>, <<5, 1>>, <<2>>} : \E skip \in {0, 2, 3, 4} :
       PopulateObject(SceneObj, layers, OrderOptions(skip))
  \/ \E scrap \in LiveScraps : Recycle(scrap)

SpecOrder == InitOrder /\ [][NextOrder]_vars

\* ---------------------------------------------------------------- SpecHelpers: helpers of lights and cameras
\* LayerDefs 1..6: an Instance i of template T; a point light g; the root t
\* of T holding the spot light l; a container p holding the camera k
HelperLayers ==
  << [LayerDef("Instance") EXCEPT !.name = S("i"), !.template = "T"],
     [LayerDef("PointLight") EXCEPT !.name = S("g")],
     [LayerDef("Object3D") EXCEPT !.name = S("t"), !.isTemplate = TRUE, !.layers = <<4>>],
     [LayerDef("SpotLight") EXCEPT !.name = S("l")],
     [LayerDef("Object3D") EXCEPT !.name = S("p"), !.layers = <<6>>],
     [LayerDef("Camera") EXCEPT !.name = S("k")] >>

\* the options of the editor: helpers, and the templates of the scene
HelperOptions(wrap) ==
  [NoOptions EXCEPT !.helpers = TRUE, !.templates = {[T |-> 3]}, !.wrapTemplates = wrap]

\* what a caller recycles here: a populated object of the live hierarchy, or
\* a helper that is in the scene
HelperScraps ==
  LiveScraps \cup {<<o>> : o \in {x \in 1..Len(objects) :
                                    objects[x].isHelper /\ objects[x].parent = SceneObj}}

InitHelpers == InitWith(HelperLayers, EmptyMap)

NextHelpers ==
  \/ \E layers \in {<<1, 2>>, <<2, 1>>, <<1, 5>>, <<5>>} : \E wrap \in BOOLEAN :
       PopulateObject(SceneObj, layers, HelperOptions(wrap))
  \/ \E scrap \in HelperScraps : Recycle(scrap)

SpecHelpers == InitHelpers /\ [][NextHelpers]_vars

\* ---------------------------------------------------------------- SpecAnchor: LayerDefs with an anchor
\* LayerDefs 1..8: the box b, which has the anchor a, holding c for its
\* anchor a; the box b holding d for an anchor z it has not; a container p,
\* which has no anchors, holding e for an anchor a; the box b holding an
\* Instance i of template T for its anchor a, and the root t of T
AnchorLayers ==
  << [LayerDef("box") EXCEPT !.name = S("b"), !.layers = <<2>>],
     [LayerDef("Object3D") EXCEPT !.name = S("c"), !.anchor = S("a")],
     [LayerDef("box") EXCEPT !.name = S("b"), !.layers = <<4>>],
     [LayerDef("Object3D") EXCEPT !.name = S("d"), !.anchor = S("z")],
     [LayerDef("Object3D") EXCEPT !.name = S("p"), !.layers = <<6>>],
     [LayerDef("Object3D") EXCEPT !.name = S("e"), !.anchor = S("a")],
     [LayerDef("box") EXCEPT !.name = S("b"), !.layers = <<8>>],
     [LayerDef("Instance") EXCEPT !.name = S("i"), !.anchor = S("a"), !.template = "T"],
     [LayerDef("Object3D") EXCEPT !.name = S("t"), !.isTemplate = TRUE] >>

\* the options a caller passes: the templates of the scene
AnchorOptions(wrap) ==
  [NoOptions EXCEPT !.templates = {[T |-> 9]}, !.wrapTemplates = wrap]

InitAnchor == InitWith(AnchorLayers, LinkAssets)

NextAnchor ==
  \/ \E layer \in {1, 3, 5, 7} : \E wrap \in BOOLEAN :
       PopulateObject(SceneObj, <<layer>>, AnchorOptions(wrap))
  \/ \E scrap \in LiveScraps : Recycle(scrap)

SpecAnchor == InitAnchor /\ [][NextAnchor]_vars
\* ---------------------------------------------------------------- the pool's contract
\* the indices of the entries of key K in a list of <<key, object>> entries
EntriesOf(p, K) == {i \in 1..Len(p) : p[i][1] = K}

\* the newest entry of key K
NewestOf(p, K) == CHOOSE i \in EntriesOf(p, K) : \A j \in EntriesOf(p, K) : j <= i

\* what a step that is a call upcycle( K ) must do to the pool
LifoStep ==
  (lastOp'.op = "upcycle" /\ calls' # calls) =>
    IF EntriesOf(pending, lastOp'.key) = {}
    THEN /\ ret'.obj = NoObj
         /\ objectPool' = objectPool
         /\ pending' = pending
    ELSE /\ ret'.obj = pending[NewestOf(pending, lastOp'.key)][2]
         /\ pending' = SeqCut(pending, NewestOf(pending, lastOp'.key))
         /\ DOMAIN objectPool' = DOMAIN objectPool
         /\ \A k \in DOMAIN objectPool :
              objectPool'[k] = IF k = lastOp'.key
                               THEN SubSeq(objectPool[k], 1, Len(objectPool[k]) - 1)
                               ELSE objectPool[k]
         /\ objectPool[lastOp'.key][Len(objectPool[lastOp'.key])] = ret'.obj

\* C1: each pool key is a LIFO stack: upcycle( K ) returns the most recently
\* recycled object of key K that was not retrieved yet and removes exactly
\* that entry; with no entry of key K it returns null and leaves the pool as
\* it was
C1_Lifo == [][LifoStep]_vars

\* upcycle returned an object while an older entry of the same key, holding
\* another object, stays pooled
C1_Witness ==
  /\ lastOp.op = "upcycle"
  /\ ret.obj # NoObj
  /\ \E i \in EntriesOf(pending, lastOp.key) : pending[i][2] # ret.obj

\* C2: populateObject( tree ), recycle of the roots it created and
\* populateObject( tree ) again with the same options, tree having no Instance
\* and no asset-lookup node: the second call returns exactly the objects the
\* first returned
C2_RoundTripReuses ==
  (trip.phase = 3 /\ ~thrown) => SeqSet(ret.objs) = SeqSet(trip.first)

\* the parents of o: the objects that list o among their children
ParentsOf(o) == {p \in 1..Len(objects) : o \in SeqSet(objects[p].children)}

\* the objects stored in the object pool
Pooled == UNION {SeqSet(objectPool[k]) : k \in DOMAIN objectPool}

\* C3: every object has at most one parent, and every object stored in the
\* object pool has none
C3_PooledDetached ==
  /\ \A o \in 1..Len(objects) : Cardinality(ParentsOf(o)) <= 1
  /\ \A o \in Pooled : objects[o].parent = NoObj /\ ParentsOf(o) = {}

\* ---------------------------------------------------------------- the retained def
\* a LayerDef value without its children
Own(v) == [v EXCEPT !.layers = <<>>]

RECURSIVE TreeIds(_, _)
\* the LayerDefs of the trees that layers lists
TreeIds(ds, layers) ==
  UNION {{layers[i]} \cup TreeIds(ds, ds[layers[i]].layers) : i \in 1..Len(layers)}

RECURSIVE SnapshotOf(_, _, _, _)
\* whether the value c is what LayerDef id and the LayerDefs below it held
\* at a moment of a call that began with the heap before and left the heap
\* after
SnapshotOf(c, id, before, after) ==
  /\ Own(c) \in {Own(before[id]), Own(after[id])}
  /\ Len(c.layers) = Len(after[id].layers)
  /\ \A i \in 1..Len(c.layers) : SnapshotOf(c.layers[i], after[id].layers[i], before, after)

\* a populateObject step: each object it returns retains a new cell, no
\* caller's LayerDef, not the cell it retained before and no cell another
\* object retains, that holds the value of the LayerDef that configured it
DefStep ==
  (lastOp'.op = "populateObject" /\ calls' # calls /\ ~thrown') =>
    \A i \in 1..Len(ret'.objs) :
      /\ objects'[ret'.objs[i]].src \in TreeIds(defs', lastOp'.layers)
      /\ objects'[ret'.objs[i]].def < 0
      /\ objects'[ret'.objs[i]].def \in DOMAIN defs'
      /\ objects'[ret'.objs[i]].def \notin DOMAIN defs
      /\ Own(defs'[objects'[ret'.objs[i]].def]) = Own(defs'[objects'[ret'.objs[i]].src])
      /\ SnapshotOf(defs'[objects'[ret'.objs[i]].def], objects'[ret'.objs[i]].src,
                    defs, defs')
      /\ \A o \in 1..Len(objects') :
           o # ret'.objs[i] => objects'[o].def # objects'[ret'.objs[i]].def

\* a populateObject step leaves the def of every object it does not return
\* as it was, whatever it writes into the caller's LayerDefs
KeptStep ==
  (lastOp'.op = "populateObject" /\ calls' # calls /\ ~thrown') =>
    \A o \in 1..Len(objects) :
      (o \notin SeqSet(ret'.objs) /\ objects[o].def # NoDef) =>
        /\ objects'[o].def = objects[o].def
        /\ defs'[objects[o].def] = defs[objects[o].def]

\* a linkObjects step leaves every caller's LayerDef as it was
LinkStep ==
  (lastOp'.op = "linkObjects" /\ calls' # calls) =>
    \A id \in DOMAIN defs : id > 0 => (id \in DOMAIN defs' /\ defs'[id] = defs[id])

\* C4: the def an object retains after populateObject configured it from
\* LayerDef d is a deep copy of d: equal in structure to d, never d itself
\* nor the def retained from an earlier use, so that the linker's writes to
\* obj.def never reach d and writes to d never reach obj.def
C4_DefIsDeepCopy == [][DefStep /\ KeptStep /\ LinkStep]_vars

\* the linker marked the def a light retains, while its LayerDef still holds
\* the '#path'
C4_Witness ==
  /\ lastOp.op = "linkObjects"
  /\ \E i \in 1..Len(ret.objs) :
       /\ objects[ret.objs[i]].def < 0
       /\ defs[objects[ret.objs[i]].def].target = TargetTrue
       /\ defs[objects[ret.objs[i]].src].target.kind = "string"

\* ---------------------------------------------------------------- light targets
\* the directional and spot lights among the objects the last call handled
LightsOf(objs) ==
  {o \in SeqSet(objs) : objects[o].cls \in {"DirectionalLight", "SpotLight"}
                        /\ objects[o].def # NoDef}

\* C6: a DirectionalLight or SpotLight, fresh or reused: with a target of
\* three numbers it has, after populateObject, a new detached target object
\* at exactly that position; with a '#path' target that does not resolve it
\* has, after populateObject and linkObjects, no target object
C6_LightTarget ==
  /\ (lastOp.op = "populateObject" /\ ~thrown) =>
       \A o \in LightsOf(ret.objs) :
         (defs[objects[o].def].target.kind = "array"
            /\ Len(defs[objects[o].def].target.arr) = 3) =>
           /\ objects[o].target \in ret.fresh
           /\ objects[objects[o].target].parent = NoObj
           /\ objects[objects[o].target].position = defs[objects[o].def].target.arr
  /\ (lastOp.op = "linkObjects" /\ ~thrown) =>
       \A o \in LightsOf(ret.objs) :
         IsReference(defs[objects[o].def].target) => objects[o].target = NoObj

\* ---------------------------------------------------------------- path resolution
\* paths and the segments they consist of
TestPaths ==
  { [path |-> <<>>, segs |-> <<<<>>>>],
    [path |-> <<"b">>, segs |-> <<S("b")>>],
    [path |-> <<"$", "b">>, segs |-> <<<<"$", "b">>>>],
    [path |-> <<"$", "a">>, segs |-> <<<<"$", "a">>>>],
    [path |-> <<"$", "x">>, segs |-> <<<<"$", "x">>>>],
    [path |-> <<"x">>, segs |-> <<S("x")>>],
    [path |-> <<"b", ".", "$", "a">>, segs |-> <<S("b"), <<"$", "a">>>>],
    [path |-> <<"b", ".", "$", "x">>, segs |-> <<S("b"), <<"$", "x">>>>],
    [path |-> <<"$", "b", ".", "x">>, segs |-> <<<<"$", "b">>, S("x")>>],
    [path |-> <<"n", ".", "x">>, segs |-> <<S("n"), S("x")>>],
    [path |-> <<"b", ".", "$", "a", ".", "x">>, segs |-> <<S("b"), <<"$", "a">>, S("x")>>] }

\* the first direct child of level whose name is exactly n, or null
RefChild(level, n) ==
  LET kids == objects[level].children
      hits == {i \in 1..Len(kids) : objects[kids[i]].name = n}
  IN IF hits = {} THEN NoObj ELSE kids[CHOOSE i \in hits : \A j \in hits : i <= j]

\* what one segment names at level: '$name' is the anchor name of a level
\* that has an anchors map, the child 'name' of a level that has none
RefSegment(level, seg) ==
  IF seg # <<>> /\ Head(seg) = "$"
  THEN IF objects[level].hasAnchors
       THEN IF Tail(seg) \in DOMAIN objects[level].anchors
            THEN objects[level].anchors[Tail(seg)]
            ELSE RefChild(level, seg)
       ELSE RefChild(level, Tail(seg))
  ELSE RefChild(level, seg)

RECURSIVE RefPath(_, _)
\* what the segments name from level on: null as soon as one names nothing
RefPath(level, segs) ==
  IF segs = <<>> THEN level
  ELSE LET found == RefSegment(level, Head(segs))
       IN IF found = NoObj THEN NoObj ELSE RefPath(found, Tail(segs))

\* C8: the linker resolves a path segment by segment: '$name' is matched
\* first against the anchors map of the current level and is the plain child
\* name 'name' only when the level has no anchors map; a plain segment
\* matches a direct child of exactly that name; a segment that matches
\* nothing leaves the whole path unresolved and raises no exception
C8_Resolves ==
  \A level \in 1..Len(objects) : \A t \in TestPaths :
    /\ ~dereferenceObject(objects, t.path, level).thrown
    /\ dereferenceObject(objects, t.path, level).obj = RefPath(level, t.segs)

\* the linker aimed a light at an anchor of a box, below which a child
\* carries the name x
C8_Witness ==
  /\ lastOp.op = "linkObjects"
  /\ \E o \in SeqSet(ret.objs) :
       /\ objects[o].target # NoObj
       /\ objects[objects[o].target].isAnchor
       /\ dereferenceObject(objects, <<"b", ".", "$", "a">>, SceneObj).obj = objects[o].target
       /\ dereferenceObject(objects, <<"b", ".", "x">>, SceneObj).obj # NoObj

\* ---------------------------------------------------------------- the order of the result
\* the last call was a populateObject that returned
Populated1 == lastOp.op = "populateObject" /\ ~thrown

\* the object at index j was materialized from an entry of the layers of the
\* LayerDef the object at index i was materialized from, as its child
ChildLayerPair(i, j) ==
  /\ objects[ret.objs[j]].src \in SeqSet(defs[objects[ret.objs[i]].src].layers)
  /\ objects[ret.objs[j]].parent = ret.objs[i]

\* C5, as the code has it: in the list populateObject returns, the object
\* materialized from a LayerDef comes before every object materialized from
\* an entry of that LayerDef's layers: parents are listed before their children
C5_ParentsFirst ==
  Populated1 => \A i, j \in 1..Len(ret.objs) : ChildLayerPair(i, j) => i < j

\* C5, as the claim has it: every object materialized from a child LayerDef
\* appears at a smaller index than the object materialized from the LayerDef
\* that contains it: children are listed before their parent
C5_ChildrenFirst ==
  Populated1 => \A i, j \in 1..Len(ret.objs) : ChildLayerPair(i, j) => j < i

\* populateObject returned a list that holds a parent and its child
C5_Witness ==
  Populated1 /\ \E i, j \in 1..Len(ret.objs) : ChildLayerPair(i, j)

\* ---------------------------------------------------------------- instances
\* the one LayerDef the last call populated
TheLayer == defs[lastOp.layers[1]]

\* the last call populated one Instance LayerDef whose template exists, with
\* options.wrapTemplates as given
InstanceCall(wrap) ==
  /\ Populated1
  /\ Len(lastOp.layers) = 1
  /\ TheLayer.asset = "Instance"
  /\ TemplateOf(lastOp.options, TheLayer.template) # 0
  /\ lastOp.options.wrapTemplates = wrap

\* whether o is the root of the template: the parent of an object made from
\* a layer of the template's root
IsTemplateRoot(o) ==
  \E k \in SeqSet(objects[o].children) :
    objects[k].src \in
      SeqSet(defs[TemplateOf(lastOp.options, TheLayer.template)].layers)

\* a container that no type case made: what wraps an instance
IsWrapper(o) == objects[o].cls = "Object3D" /\ ~objects[o].isContainer

\* wrapped: the result is a new container flagged isInstance; its first child
\* is the template's root, listed, flagged omit, with the identity transform
\* and visible; it has as many further children as the Instance LayerDef has
\* layers, or none at all when only is set
WrappedShape(only) ==
  /\ Len(ret.objs) > 0
  /\ ret.objs[1] \in ret.fresh
  /\ IsWrapper(ret.objs[1])
  /\ objects[ret.objs[1]].isInstance
  /\ Len(objects[ret.objs[1]].children) =
       (IF only THEN 1 ELSE 1 + Len(TheLayer.layers))
  /\ Len(objects[ret.objs[1]].children) > 0
  /\ IsTemplateRoot(objects[ret.objs[1]].children[1])
  /\ objects[ret.objs[1]].children[1] \in SeqSet(ret.objs)
  /\ objects[objects[ret.objs[1]].children[1]].omit
  /\ objects[objects[ret.objs[1]].children[1]].position = Zero3
  /\ objects[objects[ret.objs[1]].children[1]].rotation = Zero3
  /\ objects[objects[ret.objs[1]].children[1]].scale = One3
  /\ objects[objects[ret.objs[1]].children[1]].visible
  /\ \A k \in 2..Len(objects[ret.objs[1]].children) :
       objects[objects[ret.objs[1]].children[k]].src \in SeqSet(TheLayer.layers)

\* unwrapped: the result is the template's root itself, flagged isInstance, a
\* child of the object populated, listed exactly once; no wrapper is made or
\* listed
UnwrappedShape ==
  /\ Len(ret.objs) > 0
  /\ IsTemplateRoot(ret.objs[1])
  /\ objects[ret.objs[1]].isInstance
  /\ objects[ret.objs[1]].parent = lastOp.object
  /\ Cardinality({i \in 1..Len(ret.objs) : ret.objs[i] = ret.objs[1]}) = 1
  /\ \A o \in ret.fresh \cup SeqSet(ret.objs) : ~IsWrapper(o)

ShadowLight(o) == o.cls \in {"DirectionalLight", "SpotLight"}

\* a placeholder light: a directional or spot light that no LayerDef configured
IsPlaceHolder(o) == ShadowLight(o) /\ o.def = NoDef

\* M - N when that is positive, 0 when it is not or when M is absent
Budget(M, N) == IF M = {} THEN 0 ELSE IF (CHOOSE m \in M : TRUE) > N
                                      THEN (CHOOSE m \in M : TRUE) - N ELSE 0

\* what a step that is a call populateWith( sceneDef ) must create
ShadowStep ==
  (lastOp'.op = "populateWith" /\ calls' # calls /\ ~thrown') =>
    LET N == Cardinality({o \in SeqSet(ret'.objs) :
                            ShadowLight(objects'[o]) /\ objects'[o].castShadow})
        made == {o \in ret'.fresh : IsPlaceHolder(objects'[o])}
    IN /\ Cardinality(made) = Budget(lastOp'.sceneDef.maxShadows, N)
       /\ \A o \in made :
            /\ objects'[o].cls = (IF \A p \in made : o <= p THEN "DirectionalLight"
                                  ELSE "SpotLight")
            /\ objects'[o].castShadow
            /\ objects'[o].parent = SceneObj
            /\ o \in SeqSet(objects'[SceneObj].children)
            /\ o \notin SeqSet(ret'.objs)
       /\ placeHolderLights' # {}
       /\ SeqSet(CHOOSE l \in placeHolderLights' : TRUE) = made

\* C9: populateWith with a budget maxShadows = M, N being the directional and
\* spot lights with castShadow among the objects it populated, creates
\* exactly max( 0, M - N ) placeholder lights: the first a DirectionalLight,
\* every further one a SpotLight, each with castShadow set and a child of the
\* scene; with M <= N or maxShadows absent it creates none
C9_Placeholders == [][ShadowStep]_vars

\* populateWith created two placeholders, a directional and a spot light,
\* beside a populated light that casts shadows
C9_Witness ==
  /\ lastOp.op = "populateWith"
  /\ ~thrown
  /\ lastOp.sceneDef.maxShadows = {3}
  /\ \E o \in SeqSet(ret.objs) : ShadowLight(objects[o]) /\ objects[o].castShadow
  /\ Cardinality({o \in ret.fresh : IsPlaceHolder(objects[o])}) = 2

\* C10: every placeholder light a populateWith call created is removed from
\* the scene and recycled by the first render call that follows: after a
\* render no placeholder light is a child of the scene any more
C10_RenderClears ==
  (lastOp.op = "render" /\ ~thrown) =>
    /\ placeHolderLights = {}
    /\ \A o \in 1..Len(objects) :
         IsPlaceHolder(objects[o]) =>
           (objects[o].parent = NoObj /\ o \notin SeqSet(objects[SceneObj].children))


\* ---------------------------------------------------------------- the scope of a reference
RECURSIVE EnclosingTemplate(_, _)
\* the template root that encloses o: o itself or the nearest of its
\* ancestors that is flagged isTemplate, null when there is none
EnclosingTemplate(o, fuel) ==
  IF o = NoObj \/ fuel = 0 THEN NoObj
  ELSE IF objects[o].isTemplate THEN o
  ELSE EnclosingTemplate(objects[o].parent, fuel - 1)

\* the scope the references of o start from in a pass with the given top
ScopeOf(o, top) ==
  IF EnclosingTemplate(o, Len(objects)) # NoObj THEN EnclosingTemplate(o, Len(objects))
  ELSE top

\* the object a '#' value names from the scope of o, null when it names none
Named(o, top, str) == dereferenceObject(objects, Tail(str), ScopeOf(o, top)).obj

\* the '#' target of a light o is bound to what it names in the scope of o,
\* and is left alone when it names nothing
TargetScoped(o, top) ==
  (objects[o].cls \in {"SpotLight", "DirectionalLight"}
     /\ IsReference(defs[objects[o].def].target)) =>
    IF Named(o, top, defs[objects[o].def].target.str) # NoObj
    THEN objects'[o].target = Named(o, top, defs[objects[o].def].target.str)
    ELSE objects'[o].target = objects[o].target

\* each '#' entry of def.props of o is bound to what it names in the scope
\* of o, and is left alone when it names nothing
PropsScoped(o, top) ==
  \A n \in DOMAIN defs[objects[o].def].props :
    IsReference(defs[objects[o].def].props[n]) =>
      IF Named(o, top, defs[objects[o].def].props[n].str) # NoObj
      THEN /\ n \in DOMAIN objects'[o].props
           /\ objects'[o].props[n] =
                PropObject(Named(o, top, defs[objects[o].def].props[n].str))
      ELSE /\ (n \in DOMAIN objects'[o].props) = (n \in DOMAIN objects[o].props)
           /\ (n \in DOMAIN objects[o].props => objects'[o].props[n] = objects[o].props[n])

\* what a step that is a call linkObjects( objs, top, skipProps ) binds
ScopeStep ==
  (lastOp'.op = "linkObjects" /\ calls' # calls /\ ~thrown') =>
    \A o \in SeqSet(ret'.objs) :
      /\ TargetScoped(o, lastOp'.top)
      /\ (~lastOp'.options.skipProps => PropsScoped(o, lastOp'.top))

Skipped == {k \in DOMAIN lastOp.options.makeObject :
              lastOp.options.makeObject[k].kind = "skip"}

\* the LayerDefs for which the makeObject of the last call returns an object
Overridden == {k \in DOMAIN lastOp.options.makeObject :
                 lastOp.options.makeObject[k].kind = "object"}

\* the LayerDefs the last call was to populate: those of the trees passed
\* and of the templates its Instances name, without what lies below a
\* skipped LayerDef
RECURSIVE Reached(_, _)
Reached(layers, fuel) ==
  IF fuel = 0 THEN {}
  ELSE UNION {IF layers[i] \in Skipped THEN {}
              ELSE {layers[i]}
                     \cup Reached(defs[layers[i]].layers, fuel - 1)
                     \cup (IF defs[layers[i]].asset = "Instance"
                              /\ TemplateOf(lastOp.options, defs[layers[i]].template) # 0
                           THEN Reached(<<TemplateOf(lastOp.options,
                                                     defs[layers[i]].template)>>, fuel - 1)
                           ELSE {})
              : i \in 1..Len(layers)}

\* C12: makeObject returning -1 for a LayerDef, a template root reached
\* through an Instance included, makes populateObject pass over it without
\* raising: no object and no initObject call for it or for a LayerDef below
\* it, while every other LayerDef is populated and initialized; an object
\* makeObject returns is the one populateObject configures; with nothing
\* returned the pool is asked for def.asset, never for 'Instance'
C12_Acquisition ==
  (lastOp.op = "populateObject" /\ lastOp.options.initObject # EmptyMap) =>
    /\ ~thrown
    /\ \A o \in SeqSet(ret.objs) : objects[o].src \in Reached(lastOp.layers, Cardinality(DOMAIN defs))
    /\ \A i \in 1..Len(ret.inits) : ret.inits[i][1] \in Reached(lastOp.layers, Cardinality(DOMAIN defs))
    /\ \A k \in Reached(lastOp.layers, Cardinality(DOMAIN defs)) :
         /\ \E i \in 1..Len(ret.inits) :
              ret.inits[i][1] = k /\ ret.inits[i][2] \in SeqSet(ret.objs)
         /\ k \in Overridden =>
              \A i \in 1..Len(ret.inits) :
                ret.inits[i][1] = k =>
                  /\ ret.inits[i][2] \in ret.fresh
                  /\ objects[ret.inits[i][2]].src = k
                  /\ Own(defs[objects[ret.inits[i][2]].def]) = Own(defs[k])
                  /\ objects[ret.inits[i][2]].name = defs[k].name
         /\ (k \notin Overridden /\ defs[k].asset # "Instance") =>
              \E e \in SeqSet(ret.trace) : e[1] = "upcycle" /\ e[2] = defs[k].asset
    /\ \A e \in SeqSet(ret.trace) : e[2] # "Instance"

\* ---------------------------------------------------------------- missing templates and assets
\* whether LayerDef k is an Instance of a template the options do not have
MissingTemplate(k) ==
  defs[k].asset = "Instance" /\ TemplateOf(lastOp.options, defs[k].template) = 0

\* whether LayerDef k names an asset that is not in the asset cache
MissingAsset(k) ==
  defs[k].asset \notin StandardTags \cup {"Instance"} /\ defs[k].asset \notin DOMAIN assets

\* the objects of the result made from LayerDef k as children of parent
Substitutes(k, parent) ==
  {o \in SeqSet(ret.objs) : objects[o].src = k /\ objects[o].parent = parent}

\* o stands for the missing LayerDef k: a plain Object3D, flagged
\* isPlaceholder exactly when it is the asset that is missing, below which
\* each child layer of k was populated
StandsFor(o, k) ==
  /\ objects[o].cls = "Object3D"
  /\ objects[o].isPlaceholder = MissingAsset(k)
  /\ \A i \in 1..Len(defs[k].layers) : Substitutes(defs[k].layers[i], o) # {}
  /\ MissingTemplate(k) =>
       \A c \in SeqSet(objects[o].children) : objects[c].src \in SeqSet(defs[k].layers)

\* C13: populateObject does not raise for missing data: an Instance whose
\* template is not in options.templates, or with no options.templates,
\* yields an empty container, and an asset name that is not in the cache
\* yields an object flagged isPlaceholder; the substitute is attached and
\* listed, and its child layers and the remaining siblings are populated
C13_Substitutes ==
  (lastOp.op = "populateObject"
     /\ \E i \in 1..Len(lastOp.layers) :
          MissingTemplate(lastOp.layers[i]) \/ MissingAsset(lastOp.layers[i])) =>
    /\ ~thrown
    /\ \A i \in 1..Len(lastOp.layers) :
         /\ Substitutes(lastOp.layers[i], lastOp.object) # {}
         /\ (MissingTemplate(lastOp.layers[i]) \/ MissingAsset(lastOp.layers[i])) =>
              \A o \in Substitutes(lastOp.layers[i], lastOp.object) :
                StandsFor(o, lastOp.layers[i])

\* one call made a container for the Instance of a missing template and,
\* next to it, a placeholder for the missing asset, each with its child
C13_Witness ==
  /\ lastOp.op = "populateObject"
  /\ ~thrown
  /\ lastOp.layers = <<1, 2>>
  /\ \E o, p \in SeqSet(ret.objs) :
       /\ objects[o].src = 1 /\ ~objects[o].isPlaceholder /\ StandsFor(o, 1)
       /\ objects[p].src = 2 /\ objects[p].isPlaceholder /\ StandsFor(p, 2)
       /\ objects[o].parent = SceneObj /\ objects[p].parent = SceneObj

\* ---------------------------------------------------------------- embedded assets
\* the embedded assets of a list that decode: objects, and text that
\* decompresses and parses
Decodable(list) == {i \in 1..Len(list) : list[i].text \in {"", "ok"}}

\* what a step that is a call populateWith( sceneDef ) does with the
\* embedded assets
AssetStep ==
  (lastOp'.op = "populateWith" /\ calls' # calls) =>
    /\ ~thrown'
    /\ DOMAIN assets' =
         DOMAIN assets \cup {lastOp'.sceneDef.assets[i].name :
                               i \in Decodable(lastOp'.sceneDef.assets)}
    /\ \A n \in DOMAIN assets : assets'[n] = assets[n]
    /\ \A i \in 1..Len(lastOp'.sceneDef.layers) :
         \E o \in SeqSet(ret'.objs) : objects'[o].src = lastOp'.sceneDef.layers[i]

\* C14: in populateWith an embedded asset delivered as text that does not
\* decompress or does not parse as JSON is passed over: nothing enters the
\* asset cache for it and no exception escapes, the other assets are
\* registered and the layers are populated; an asset whose name is in the
\* cache already is not replaced
C14_BadAssetSkipped == [][AssetStep]_vars

\* ---------------------------------------------------------------- the pool under re-entrant calls
\* the key's stack in a pool of stacks, empty when the pool has none
StackOf(pool, key) == IF key \in DOMAIN pool THEN pool[key] ELSE <<>>

\* the pool with object o put on top of the key's stack
Pushed(pool, key, o) ==
  [k \in DOMAIN pool \cup {key} |->
     IF k = key THEN Append(StackOf(pool, key), o) ELSE pool[k]]

\* the pool with the top of the key's stack taken off
Popped(pool, key) ==
  [pool EXCEPT ![key] = SubSeq(@, 1, Len(@) - 1)]

RECURSIVE Replay(_, _, _)
\* the pool of stacks after the events of trace from index i on, each
\* recycle putting its object on top of its key's stack and each upcycle
\* returning the top of its key's stack, or null from an empty stack; ok
\* tells whether every upcycle returned just that
Replay(pool, trace, i) ==
  IF i > Len(trace) THEN [ok |-> TRUE, pool |-> pool]
  ELSE IF trace[i][1] = "recycle"
       THEN Replay(Pushed(pool, trace[i][2], trace[i][3]), trace, i + 1)
  ELSE IF StackOf(pool, trace[i][2]) = <<>>
       THEN IF trace[i][3] = NoObj THEN Replay(pool, trace, i + 1)
            ELSE [ok |-> FALSE, pool |-> pool]
  ELSE IF trace[i][3] = pool[trace[i][2]][Len(pool[trace[i][2]])]
       THEN Replay(Popped(pool, trace[i][2]), trace, i + 1)
  ELSE [ok |-> FALSE, pool |-> pool]

\* no object is stored in the pool twice
NoDuplicates(pool) ==
  \A k, l \in DOMAIN pool : \A i \in 1..Len(pool[k]) : \A j \in 1..Len(pool[l]) :
    pool[k][i] = pool[l][j] => (k = l /\ i = j)

\* what a step that is a call of populateObject, recycle or upcycle, with
\* whatever its callbacks call, does to the pool
ReenterStep ==
  (lastOp'.op \in {"populateObject", "recycle", "upcycle"} /\ calls' # calls /\ ~thrown') =>
    /\ Replay(objectPool, ret'.trace, 1).ok
    /\ Replay(objectPool, ret'.trace, 1).pool = objectPool'
    /\ NoDuplicates(objectPool) => NoDuplicates(objectPool')

\* C15: with makeObject and initObject callbacks that call populateObject,
\* recycle or upcycle while a populateObject call is in progress, every
\* upcycle, whoever issues it, returns the most recently recycled remaining
\* object of its key, and the pool holds exactly the recycled objects not
\* yet returned, none of them twice
C15_Reentrant == [][ReenterStep]_vars

\* a callback recycled an object during a populateObject call, the call
\* took it back from the top of a stack that held an older entry, and that
\* entry is still pooled
C15_Witness ==
  /\ lastOp.op = "populateObject"
  /\ ~thrown
  /\ lastOp.options.makeObject # EmptyMap \/ lastOp.options.initObject # EmptyMap
  /\ \E i, j \in 1..Len(ret.trace) :
       /\ i < j
       /\ ret.trace[i][1] = "recycle"
       /\ ret.trace[j] = <<"upcycle", ret.trace[i][2], ret.trace[i][3]>>
       /\ Len(StackOf(objectPool, ret.trace[i][2])) > 0

\* ---------------------------------------------------------------- the active camera
\* object o, in the heap os, was materialized from a camera LayerDef marked
\* as the default
DefaultCamera(os, o) ==
  /\ o # NoObj
  /\ os[o].def # NoDef
  /\ defs'[os[o].def].asset \in {"Camera", "OrthographicCamera"}
  /\ defs'[os[o].def].isDefault

\* what a populateObject step does to the active camera
CameraStep ==
  (lastOp'.op = "populateObject" /\ calls' # calls) =>
    /\ camera' # camera =>
         /\ ~lastOp'.options.keepSceneCamera
         /\ DefaultCamera(objects', camera')
         /\ camera' \in SeqSet(ret'.objs)
         /\ camera # NoObj => objects'[camera].parent = NoObj
    /\ lastOp'.options.keepSceneCamera =>
         /\ camera' = camera
         /\ camera # NoObj => objects'[camera].parent = objects[camera].parent

\* C16: populateObject changes the active camera only when it materializes a
\* camera LayerDef of either type with isDefault true and keepSceneCamera is
\* not set, the new camera being that object and the previous one detached;
\* with keepSceneCamera set the active camera is neither changed nor detached
C16_ActiveCamera == [][CameraStep]_vars

\* ---------------------------------------------------------------- the caller's LayerDefs
\* what a populating step does to the LayerDefs of the caller
InputStep ==
  (lastOp'.op \in {"populateObject", "populateWith", "instantiate"} /\ calls' # calls) =>
    \A k \in DOMAIN defs : k > 0 => (k \in DOMAIN defs' /\ defs'[k] = defs[k])

\* C17: after populateObject, populateWith or instantiate returns, every
\* LayerDef and template of the caller, Geometry LayerDefs with unspecified
\* or out-of-range size and segment parameters included, has the fields and
\* the values it had before the call
C17_InputImmutable == [][InputStep]_vars

\* ---------------------------------------------------------------- instantiate
\* the name is one of the scene's templates
KnownTemplate(name) == \E t \in templates : name \in DOMAIN t

\* the light o of the returned list aims at the object named c that the
\* call created as a child of the root it returned
AimsBelowRoot(o) ==
  /\ objects'[o].target \in SeqSet(ret'.objs)
  /\ objects'[objects'[o].target].parent = ret'.obj
  /\ objects'[objects'[o].target].name = S("c")

\* what an instantiate step returns and leaves
TemplateStep ==
  (lastOp'.op = "instantiate" /\ calls' # calls) =>
    IF KnownTemplate(lastOp'.key)
    THEN /\ ~thrown'
         /\ IF ret'.objs = <<>> THEN ret'.obj = NoObj
            ELSE /\ ret'.obj \in SeqSet(ret'.objs)
                 /\ \E t \in templates : objects'[ret'.obj].src = t[lastOp'.key]
                 /\ objects'[ret'.obj].parent = NoObj
                 /\ \A o \in SeqSet(ret'.objs) :
                      objects'[o].cls = "SpotLight" => AimsBelowRoot(o)
    ELSE /\ ~thrown'
         /\ ret'.obj = NoObj
         /\ objects' = objects
         /\ objectPool' = objectPool

\* C18: instantiate of a name among the scene's templates returns the object
\* made from the template's root LayerDef, without a parent, the created
\* objects linked with that root as scope, or null when nothing was created;
\* for any other name, also before populateWith has set the templates, it
\* returns no object, creates and attaches nothing, leaves the pool as it
\* was and does not raise
C18_Instantiate == [][TemplateStep]_vars

\* ---------------------------------------------------------------- what a pass binds and what it leaves
\* the light o, whose retained definition is d, after a pass with the given
\* top: a '#' target that names an object is bound to it and marked true in
\* the definition; any other target, one a former pass marked included,
\* stays as it is in the object and in the definition
TargetBound(o, d, top) ==
  IF IsReference(defs[d].target) /\ Named(o, top, defs[d].target.str) # NoObj
  THEN /\ objects'[o].target = Named(o, top, defs[d].target.str)
       /\ defs'[d].target = TargetTrue
  ELSE /\ objects'[o].target = objects[o].target
       /\ defs'[d].target = defs[d].target

\* the property n of o, whose retained definition is d, after a pass with
\* the given top: a '#' value that names nothing leaves it as it was, a
\* value that is no reference is assigned as it is
PropBound(o, d, n, top) ==
  IF IsReference(defs[d].props[n])
  THEN Named(o, top, defs[d].props[n].str) = NoObj =>
         /\ (n \in DOMAIN objects'[o].props) = (n \in DOMAIN objects[o].props)
         /\ n \in DOMAIN objects[o].props => objects'[o].props[n] = objects[o].props[n]
  ELSE /\ n \in DOMAIN objects'[o].props
       /\ objects'[o].props[n] = defs[d].props[n]

\* what a step that is a call linkObjects( objs, top, skipProps ) does
BindStep ==
  (lastOp'.op = "linkObjects" /\ calls' # calls) =>
    /\ ~thrown'
    /\ \A o \in SeqSet(ret'.objs) :
         /\ objects[o].cls \in {"SpotLight", "DirectionalLight"} =>
              TargetBound(o, objects[o].def, lastOp'.top)
         /\ ~lastOp'.options.skipProps =>
              \A n \in DOMAIN defs[objects[o].def].props :
                PropBound(o, objects[o].def, n, lastOp'.top)

\* C19: linkObjects binds the '#' target of a directional or spot light
\* that resolves and sets def.target to true, so that a later pass, whatever
\* its top, leaves the target alone; a target that does not resolve leaves
\* the light's target and def.target as they were, without an error; of
\* def.props, unless skipProps, a '#' value that does not resolve leaves the
\* property as it was and any other value is assigned verbatim
C19_Binds == [][BindStep]_vars

\* a second pass over a light whose target a former pass bound, from a top
\* below which the light's reference names nothing: the target is still
\* the object bound first
C19_Witness ==
  /\ lastOp.op = "linkObjects"
  /\ ~thrown
  /\ \E o \in SeqSet(ret.objs) :
       /\ objects[o].cls = "SpotLight"
       /\ defs[objects[o].def].target = TargetTrue
       /\ objects[o].target # NoObj
       /\ EnclosingTemplate(o, Len(objects)) = NoObj
       /\ Named(o, lastOp.top, defs[objects[o].src].target.str) = NoObj

\* ---------------------------------------------------------------- the update flags
\* the objects a recycle of scrap processes: its entries and everything
\* below them
Processed(scrap) ==
  {o \in 1..Len(objects) :
     o \in SeqSet(scrap) \/ AncestorIn(objects, o, SeqSet(scrap), Len(objects))}

\* object o is a light, of whatever subtype
IsLight(o) == objects[o].cls \in LightClasses

\* what a step does to updateLights and updateMaterials
FlagStep ==
  (calls' # calls /\ ~thrown') =>
    /\ (lastOp'.op = "recycle" /\ \E o \in Processed(lastOp'.scrap) : IsLight(o)) =>
         updateLights'
    /\ (lastOp'.op = "linkObjects" /\ \E o \in SeqSet(ret'.objs) : IsLight(o)) =>
         (updateLights' /\ updateMaterials')
    /\ lastOp'.op \in {"populateObject", "linkObjects", "recycle", "upcycle"} =>
         /\ updateLights => updateLights'
         /\ updateMaterials => updateMaterials'

\* C20: recycle of at least one light, directly or inside a recycled
\* subtree, returns with updateLights true; linkObjects of a list that holds
\* a light returns with updateLights and updateMaterials true; populateObject,
\* linkObjects, recycle and upcycle never turn either flag from true to false
C20_Flags == [][FlagStep]_vars

\* ---------------------------------------------------------------- termination
\* C21: populateObject returns its list for every finite layers array and
\* every finite templates map, whatever templates the Instance layers and
\* the containsTemplates lists inside those templates refer to: no call
\* ends by running out of stack
C21_Terminates == lastOp.op = "populateObject" => ~thrown

\* ---------------------------------------------------------------- the order of the callbacks
\* the places in the history of the last call where the given step was
\* taken for LayerDef k
Steps(step, k) ==
  {i \in 1..Len(ret.order) : ret.order[i][1] = step /\ ret.order[i][2] = k}

\* the one place of the step for LayerDef k
At(step, k) == CHOOSE i \in Steps(step, k) : TRUE

\* the LayerDefs the last call was to populate
ToPopulate == Reached(lastOp.layers, Cardinality(DOMAIN defs))

\* the place where the call was done with LayerDef k: its initObject, or its
\* makeObject when that skipped it
DoneAt(k) == IF k \in ToPopulate THEN At("initObject", k) ELSE At("makeObject", k)

\* the entries of the array layers were processed one after the other
InArrayOrder(layers) ==
  \A i, j \in 1..Len(layers) : i < j => DoneAt(layers[i]) < At("makeObject", layers[j])

\* the steps taken for the populated LayerDef k: each once, makeObject
\* first, then the acquisition and the listing, initObject last and with the
\* object configured, attached and listed
OwnOrder(k) ==
  /\ \A step \in {"makeObject", "acquired", "listed", "initObject"} :
       Cardinality(Steps(step, k)) = 1
  /\ At("makeObject", k) < At("acquired", k)
  /\ At("acquired", k) < At("listed", k)
  /\ At("listed", k) < At("initObject", k)
  /\ ret.order[At("initObject", k)][4]
  /\ ret.order[At("initObject", k)][3] = ret.order[At("listed", k)][3]

\* the steps taken for the entries of the layers of the populated LayerDef k
ChildOrder(k) ==
  /\ InArrayOrder(defs[k].layers)
  /\ \A i \in 1..Len(defs[k].layers) :
       /\ At("acquired", k) < At("makeObject", defs[k].layers[i])
       /\ DoneAt(defs[k].layers[i]) < At("initObject", k)

\* C22: in one populateObject call makeObject( def ) is called before an
\* object for def is acquired and before the makeObject of any descendant;
\* initObject is called exactly once for each LayerDef that is not skipped,
\* after its object is configured, attached and listed and after the
\* initObject of every descendant populated from def.layers; the entries of
\* an array are processed in array order
C22_Order ==
  (lastOp.op = "populateObject" /\ ~thrown /\ lastOp.options.makeObject # EmptyMap) =>
    /\ InArrayOrder(lastOp.layers)
    /\ \A k \in ToPopulate : OwnOrder(k) /\ ChildOrder(k)
    /\ \A k \in DOMAIN defs \ ToPopulate :
         \A step \in {"acquired", "listed", "initObject"} : Steps(step, k) = {}

\* a call populated a LayerDef with two entries in its layers, the first of
\* them with an entry of its own, next to a sibling, and skipped another
C22_Witness ==
  /\ lastOp.op = "populateObject"
  /\ ~thrown
  /\ Len(lastOp.layers) = 2
  /\ Skipped # {}
  /\ \E k \in ToPopulate :
       /\ Len(defs[k].layers) = 2
       /\ defs[k].layers[1] \in ToPopulate
       /\ Len(defs[defs[k].layers[1]].layers) = 1

\* ---------------------------------------------------------------- helpers
\* the LayerDefs of the templates of the last call
TemplateDefs ==
  UNION {Reached(<<t[n]>>, Cardinality(DOMAIN defs)) :
           n \in {"T"}, t \in lastOp.options.templates}

\* the LayerDef is one of a light or of a camera
LightOrCamera(k) ==
  defs[k].asset \in {"Camera", "OrthographicCamera", "DirectionalLight", "SpotLight",
                     "PointLight", "HemisphereLight"}

\* the call made a helper for object o
HelperMadeFor(o) ==
  /\ objects[o].helper \in ret.fresh
  /\ objects[objects[o].helper].isHelper

\* C23: with options.helpers, populateObject makes a helper for every light
\* and camera LayerDef that is not populated as part of an Instance's
\* template, one that follows an Instance layer in the same array and its
\* descendants included, and for none that is
C23_Helpers ==
  (lastOp.op = "populateObject" /\ ~thrown /\ lastOp.options.helpers) =>
    \A o \in SeqSet(ret.objs) :
      LightOrCamera(objects[o].src) =>
        (HelperMadeFor(o) <=> objects[o].src \notin TemplateDefs)

\* ---------------------------------------------------------------- attachment to anchors
\* object o of the list was populated from an entry of the layers of the
\* LayerDef of object q of the list: q is the parent o was populated for
PopulatedFor(o, q) == objects[o].src \in SeqSet(defs[objects[q].src].layers)

\* object o, populated for the parent q from a LayerDef with an anchor, is
\* attached as the claim has it
AttachedAsAnchored(o, q) ==
  IF objects[q].hasAnchors /\ defs[objects[o].src].anchor \in DOMAIN objects[q].anchors
  THEN /\ objects[o].parent = objects[q].anchors[defs[objects[o].src].anchor]
       /\ objects[o].anchored = {defs[objects[o].src].anchor}
  ELSE /\ objects[o].parent = q
       /\ objects[o].anchored = {}

\* C24: an object populated from a LayerDef with def.anchor, an Instance in
\* either mode included, becomes a child of the parent's anchor of that name,
\* with obj.anchored the name, when the parent has an anchors map with that
\* slot; otherwise it becomes a direct child of the parent with obj.anchored
\* false, and nothing is raised; obj.anchored is non-false exactly when the
\* object's parent is an anchor
C24_AnchorAttach ==
  lastOp.op = "populateObject" =>
    /\ ~thrown
    /\ \A o, q \in SeqSet(ret.objs) :
         (PopulatedFor(o, q) /\ defs[objects[o].src].anchor # <<>>) =>
           AttachedAsAnchored(o, q)
    /\ \A o \in SeqSet(ret.objs) :
         objects[o].anchored # {} <=>
           (objects[o].parent # NoObj /\ objects[objects[o].parent].isAnchor)

\* ---------------------------------------------------------------- name references after recycle
\* some object holds a name reference to o in the heap os
ReferredTo(os, o) ==
  \E h \in 1..Len(os) : \E n \in DOMAIN os[h].refs : os[h].refs[n] = o

\* what a recycle step leaves of the populated objects it was passed
UnrefStep ==
  (lastOp'.op = "recycle" /\ calls' # calls /\ ~thrown') =>
    \A o \in SeqSet(lastOp'.scrap) :
      (objects[o].src # 0 /\ objects[o].parent # NoObj) =>
        /\ objects'[o].parent = NoObj
        /\ ~ReferredTo(objects', o)

\* C25: after recycle( obj ) of an object that populateObject attached under
\* a parent, directly, through an anchor or as an Instance, obj has no
\* parent and no object holds a name reference to it: every binding
\* parent[ name ] = obj that populateObject made is removed
C25_Unreferenced == [][UnrefStep]_vars

\* ---------------------------------------------------------------- the keys of the pool
\* the key an object is to be pooled under, "" for one that is not to be
\* pooled: a helper, a placeholder, an anchor, a container that is not
\* flagged isContainer, and any object of another kind
KeyOf(o) ==
  IF o.isHelper THEN ""
  ELSE IF o.cls = "PixelBox" THEN o.asset
  ELSE IF o.cls \in {"DirectionalLight", "HemisphereLight", "PointLight", "SpotLight"}
       THEN o.cls
  ELSE IF o.cls = "Mesh" THEN "Geometry"
  ELSE IF o.cls = "PerspectiveCamera" THEN "Camera"
  ELSE IF o.cls = "OrthographicCamera" THEN "OrthographicCamera"
  ELSE IF o.cls = "LinePath" THEN "LinePath"
  ELSE IF o.cls = "Object3D" /\ o.isContainer /\ ~o.isPlaceholder /\ ~o.isAnchor
       THEN "Object3D"
  ELSE ""

\* every object of the pool is stored under its own key
PoolKeyed(pool, os) ==
  \A k \in DOMAIN pool : \A i \in 1..Len(pool[k]) : KeyOf(os[pool[k][i]]) = k

\* what a step leaves in the pool, and what a recycle step leaves of the
\* objects it was passed
KeyStep ==
  calls' # calls =>
    /\ PoolKeyed(objectPool', objects')
    /\ (lastOp'.op = "recycle" /\ ~thrown') =>
         \A o \in SeqSet(lastOp'.scrap) : objects'[o].parent = NoObj

\* C26: each object stored in the pool under key K is of the kind K names;
\* containers not flagged isContainer, placeholders, anchors, helpers and
\* objects of no pooled kind are never stored in the pool, though recycle
\* detaches them
C26_PoolKeys == [][KeyStep]_vars

\* ---------------------------------------------------------------- the pool and the hierarchy
\* whether o is attached to the live hierarchy: below the scene
Live(os, o) == AncestorIn(os, o, {SceneObj}, Len(os))

\* no object is in the pool twice, and no object of the pool has a parent or
\* children
Sound(pool, os) ==
  /\ NoDuplicates(pool)
  /\ \A o \in PooledIn(pool) : os[o].parent = NoObj /\ os[o].children = <<>>

\* no object is in the list twice
Distinct(objs) == \A i, j \in 1..Len(objs) : objs[i] = objs[j] => i = j

\* what a call of populateObject, populateWith, instantiate, recycle, upcycle
\* or render leaves of a sound pool, when every object passed to recycle is
\* attached to the live hierarchy
SoundStep ==
  ( /\ calls' # calls
    /\ ~thrown'
    /\ lastOp'.op \in {"populateObject", "populateWith", "instantiate", "recycle",
                       "upcycle", "render"}
    /\ Sound(objectPool, objects)
    /\ (lastOp'.op = "recycle" => \A o \in SeqSet(lastOp'.scrap) : Live(objects, o)) ) =>
    /\ Sound(objectPool', objects')
    /\ (lastOp'.op = "populateObject" => Distinct(ret'.objs))

\* C27: when every object passed to recycle is attached to the live hierarchy,
\* no object is in the pool more than once, no object of the pool has a parent
\* or children, and no object is twice in a list populateObject returns
C27_PoolSound == [][SoundStep]_vars

\* ---------------------------------------------------------------- dispose
\* C28: when dispose() returns, the scene has no children and the pool is
\* empty, and no object that dispose() cleared out of the pool is stored in
\* the pool again or returned by upcycle, whatever is called afterwards,
\* render included
C28_Disposed ==
  /\ (lastOp.op = "dispose" /\ ~thrown) =>
       (objects[SceneObj].children = <<>> /\ objectPool = EmptyMap)
  /\ PooledIn(objectPool) \cap disposed = {}
  /\ (lastOp.op = "upcycle" => ret.obj \notin disposed)

\* ---------------------------------------------------------------- reuse and construction
\* what the claim compares of an object: its name, flags, transform,
\* visibility and shadow flags, and how many children it was given
Look(os, o) ==
  [cls |-> os[o].cls, name |-> os[o].name,
   isInstance |-> os[o].isInstance, isTemplate |-> os[o].isTemplate,
   omit |-> os[o].omit, anchored |-> os[o].anchored,
   position |-> os[o].position, rotation |-> os[o].rotation, scale |-> os[o].scale,
   visible |-> os[o].visible,
   castShadow |-> os[o].castShadow, receiveShadow |-> os[o].receiveShadow,
   children |-> Len(os[o].children)]

\* the objects of the list objs of heap os look like those of the list
\* others of heap ps, one by one
Alike(os, objs, ps, others) ==
  /\ Len(objs) = Len(others)
  /\ \A i \in 1..Len(objs) : i <= Len(others) => Look(os, objs[i]) = Look(ps, others[i])

\* what the same call returns when the pool is empty and every object is
\* constructed
Constructed(object, layers, options) ==
  populateObject([World EXCEPT !.objectPool = EmptyMap], object, layers, options)

\* a populateObject call of LayerDefs that are no Instances returns objects
\* that look like those the same call constructs from an empty pool
ReuseStep ==
  ( /\ calls' # calls
    /\ lastOp'.op = "populateObject"
    /\ ~thrown'
    /\ \A i \in 1..Len(lastOp'.layers) : defs[lastOp'.layers[i]].asset # "Instance" ) =>
    Alike(objects', ret'.objs,
          Constructed(lastOp'.object, lastOp'.layers, lastOp'.options).w.objects,
          Constructed(lastOp'.object, lastOp'.layers, lastOp'.options).objs)

\* C29: whatever the history of the pooled object, the object populateObject
\* returns for a LayerDef that is no Instance has the name, flags, transform,
\* visibility and shadow flags of an object constructed for that LayerDef, and
\* is given the same children
C29_ReuseAsFresh == [][ReuseStep]_vars
====
